---- MODULE Spec2Model ----
(***************************************************************************)
(* Markdown table editor: the Markdown codec (MarkdownTableParser), the    *)
(* application store (useAppStore) with its undo/redo history, and the UI  *)
(* handlers that drive the store.                                          *)
(*                                                                         *)
(* Strings are sequences of one-character strings.  JavaScript arrays that *)
(* the code shares between objects and writes in place (header arrays, row *)
(* arrays, the outer rows array) live in `heap' and are named by address.  *)
(***************************************************************************)
EXTENDS Integers, Sequences, FiniteSets, TLC

(***************************************************************************)
(* Bounds of the model.                                                    *)
(***************************************************************************)
\* number of handler invocations explored in one session
MaxSteps == 3
\* columns / data rows of the tables given to the codec
MaxCodecCols == 2
MaxCodecRows == 1
\* commits made by the history-depth specification
MaxDepth == 11
\* commits applied in a row by the N-commits / N-undos law
MaxCommits == 2
\* operations remembered by the operation log
LogLength == 3
\* characters of the texts given to parse and validate
MaxTextLen == 5

(***************************************************************************)
(* JavaScript string primitives.                                           *)
(***************************************************************************)
NL == "\n"

IsSpace(c) == c \in {" ", NL, "\t"}

RECURSIVE trimStart(_)
trimStart(s) ==
  IF s # <<>> /\ IsSpace(Head(s)) THEN trimStart(Tail(s)) ELSE s

RECURSIVE trimEnd(_)
trimEnd(s) ==
  IF s # <<>> /\ IsSpace(s[Len(s)]) THEN trimEnd(SubSeq(s, 1, Len(s) - 1)) ELSE s

\* String.prototype.trim
trim(s) == trimEnd(trimStart(s))

\* String.prototype.split with a one-character separator
RECURSIVE split(_, _)
split(s, sep) ==
  IF \E i \in 1..Len(s) : s[i] = sep
  THEN LET i == CHOOSE k \in 1..Len(s) :
                  s[k] = sep /\ \A j \in 1..(k - 1) : s[j] # sep
       IN  <<SubSeq(s, 1, i - 1)>> \o split(SubSeq(s, i + 1, Len(s)), sep)
  ELSE <<s>>

\* Array.prototype.join
RECURSIVE join(_, _)
join(parts, sep) ==
  IF parts = <<>> THEN <<>>
  ELSE IF Len(parts) = 1 THEN parts[1]
  ELSE parts[1] \o sep \o join(Tail(parts), sep)

startsWith(s, c) == s # <<>> /\ s[1] = c
endsWith(s, c) == s # <<>> /\ s[Len(s)] = c

\* Array.prototype.filter on a sequence, by index predicate
RECURSIVE filterIdx(_, _, _)
filterIdx(xs, keep, i) ==
  IF i > Len(xs) THEN <<>>
  ELSE (IF i \in keep THEN <<xs[i]>> ELSE <<>>) \o filterIdx(xs, keep, i + 1)

\* Array.prototype.splice(index, 0, item) on a copy
insertAt(xs, index, item) ==
  SubSeq(xs, 1, index) \o <<item>> \o SubSeq(xs, index + 1, Len(xs))

\* the array after xs[i] = v (i counted from 0): a write past the end
\* extends the array, the skipped positions holding `hole'; a negative
\* index sets a property and leaves the elements alone
arraySet(xs, i, v, hole) ==
  IF i < 0 THEN xs
  ELSE IF i < Len(xs) THEN [xs EXCEPT ![i + 1] = v]
  ELSE [k \in 1..(i + 1) |->
          IF k <= Len(xs) THEN xs[k] ELSE IF k = i + 1 THEN v ELSE hole]

\* decimal text of a small integer, as template literals print it
Digit(n) == <<"0", "1", "2", "3", "4", "5", "6", "7", "8", "9">>[n + 1]

RECURSIVE NatText(_)
NatText(n) == IF n < 10 THEN <<Digit(n)>> ELSE NatText(n \div 10) \o <<Digit(n % 10)>>

IntText(n) == IF n < 0 THEN <<"-">> \o NatText(0 - n) ELSE NatText(n)

(***************************************************************************)
(* MarkdownTableParser: the codec on table values                          *)
(* [headers, rows, alignments (, columnWidths)].                           *)
(***************************************************************************)
FormatError == [message |-> "Invalid markdown table format"]

parseTableRow(line) ==
  LET trimmed == trim(line)
      withoutBorders == IF startsWith(trimmed, "|") THEN Tail(trimmed) ELSE trimmed
      withoutEndBorder == IF endsWith(withoutBorders, "|")
                          THEN SubSeq(withoutBorders, 1, Len(withoutBorders) - 1)
                          ELSE withoutBorders
      cells == split(withoutEndBorder, "|")
  IN  [i \in 1..Len(cells) |-> trim(cells[i])]

\* parseAlignments that reads a colon on the left as right alignment
parseAlignments_leftColon(line) ==
  LET cells == parseTableRow(line)
  IN  [i \in 1..Len(cells) |->
         LET trimmed == trim(cells[i])
         IN  IF startsWith(trimmed, ":") /\ endsWith(trimmed, ":") THEN "center"
             ELSE IF startsWith(trimmed, ":") THEN "right"
             ELSE "left"]

parseAlignments(line) ==
  LET cells == parseTableRow(line)
  IN  [i \in 1..Len(cells) |->
         LET trimmed == trim(cells[i])
         IN  IF startsWith(trimmed, ":") /\ endsWith(trimmed, ":") THEN "center"
             ELSE IF endsWith(trimmed, ":") THEN "right"
             ELSE "left"]

buildTableRow(cells) == <<"|", " ">> \o join(cells, <<" ", "|", " ">>) \o <<" ", "|">>

buildAlignmentRow(alignments) ==
  buildTableRow([i \in 1..Len(alignments) |->
                   IF alignments[i] = "center" THEN <<":", "-", "-", "-", ":">>
                   ELSE IF alignments[i] = "right" THEN <<"-", "-", "-", ":">>
                   ELSE <<"-", "-", "-">>])

\* the non-blank lines parse works on
parseLines(markdown) ==
  LET all == split(trim(markdown), NL)
  IN  filterIdx(all, {i \in 1..Len(all) : trim(all[i]) # <<>>}, 1)

\* parse that also wants a data row
MarkdownTableParser_parse_needsDataRow(markdown) ==
  LET lines == parseLines(markdown)
  IN  IF Len(lines) < 3 THEN FormatError
      ELSE [headers |-> parseTableRow(lines[1]),
            rows |-> [i \in 1..(Len(lines) - 2) |-> parseTableRow(lines[i + 2])],
            alignments |-> parseAlignments(lines[2])]

\* a table value, or FormatError where the code throws
MarkdownTableParser_parse(markdown) ==
  LET lines == parseLines(markdown)
  IN  IF Len(lines) < 2 THEN FormatError
      ELSE [headers |-> parseTableRow(lines[1]),
            rows |-> [i \in 1..(Len(lines) - 2) |-> parseTableRow(lines[i + 2])],
            alignments |-> parseAlignments(lines[2])]

MarkdownTableParser_serialize(tableData) ==
  LET headerRow == buildTableRow(tableData.headers)
      alignmentRow == buildAlignmentRow(tableData.alignments)
      dataRows == [i \in 1..Len(tableData.rows) |-> buildTableRow(tableData.rows[i])]
  IN  join(<<headerRow, alignmentRow>> \o dataRows, <<NL>>)

\* whether a parse result is the thrown error
Threw(result) == "message" \in DOMAIN result

MarkdownTableParser_validate(markdown) ==
  ~Threw(MarkdownTableParser_parse(markdown))

(***************************************************************************)
(* The heap of JavaScript arrays.  heap[a] is the content of the array at  *)
(* address a: a sequence of strings for a header or row array, a sequence  *)
(* of row addresses for an outer rows array.  A TableData object is a      *)
(* record of the addresses of its headers and rows arrays plus its         *)
(* alignments and, when the field is present, its columnWidths.            *)
(***************************************************************************)
\* an absent optional argument is <<>>, a present one <<value>>
Undefined == <<>>
Some(v) == <<v>>

HasWidths(tableData) == "columnWidths" \in DOMAIN tableData

\* the TableData object literal {headers, rows, alignments}
TableObject(headers, rows, alignments) ==
  [headers |-> headers, rows |-> rows, alignments |-> alignments]

\* the table value a TableData object denotes in heap h
tableValue(h, tableData) ==
  LET rowRefs == h[tableData.rows]
      base == [headers |-> h[tableData.headers],
               rows |-> [i \in 1..Len(rowRefs) |-> h[rowRefs[i]]],
               alignments |-> tableData.alignments]
  IN  IF HasWidths(tableData)
      THEN base @@ [columnWidths |-> tableData.columnWidths]
      ELSE base

\* a freshly built TableData object with the content of table value tv
newTable(h, tv) ==
  LET n == Len(tv.rows)
      base == Len(h)
      h1 == (h \o <<tv.headers>>) \o [i \in 1..n |-> tv.rows[i]]
      t == TableObject(base + 1, base + n + 2, tv.alignments)
  IN  [heap |-> Append(h1, [i \in 1..n |-> base + 1 + i]),
       table |-> IF "columnWidths" \in DOMAIN tv
                 THEN t @@ [columnWidths |-> tv.columnWidths]
                 ELSE t]

blankRow(n) == [i \in 1..n |-> <<>>]

\* `Header ${n}`
HeaderName(n) == <<"H", "e", "a", "d", "e", "r", " ">> \o NatText(n)

MarkdownTableParser_createEmpty(rows, cols) ==
  [headers |-> [i \in 1..cols |-> HeaderName(i)],
   rows |-> [r \in 1..rows |-> blankRow(cols)],
   alignments |-> [i \in 1..cols |-> "left"]]

(***************************************************************************)
(* MarkdownTableParser: the table manipulation helpers.  Each returns      *)
(* [heap, table]: the heap after the arrays it allocates, and the          *)
(* TableData object it returns (the input object where the code returns    *)
(* its argument).                                                          *)
(***************************************************************************)
MarkdownTableParser_addRow(h, tableData, index) ==
  LET headers == h[tableData.headers]
      rows == h[tableData.rows]
      newRow == Len(h) + 1
      newRows == IF index # Undefined /\ index[1] >= 0 /\ index[1] <= Len(rows)
                 THEN insertAt(rows, index[1], newRow)
                 ELSE Append(rows, newRow)
  IN  [heap |-> h \o <<blankRow(Len(headers)), newRows>>,
       table |-> TableObject(tableData.headers, Len(h) + 2, tableData.alignments)]

MarkdownTableParser_removeRow(h, tableData, index) ==
  LET rows == h[tableData.rows]
  IN  IF index < 0 \/ index >= Len(rows)
      THEN [heap |-> h, table |-> tableData]
      ELSE [heap |-> Append(h, filterIdx(rows, (1..Len(rows)) \ {index + 1}, 1)),
            table |-> TableObject(tableData.headers, Len(h) + 1, tableData.alignments)]

\* addColumn that forgets the data rows
MarkdownTableParser_addColumn_headersOnly(h, tableData, index) ==
  LET headers == h[tableData.headers]
      insertIndex == IF index # Undefined /\ index[1] >= 0 /\ index[1] <= Len(headers)
                     THEN index[1] ELSE Len(headers)
      newHeaders == insertAt(headers, insertIndex, HeaderName(Len(headers) + 1))
      newAlignments == insertAt(tableData.alignments, insertIndex, "left")
  IN  [heap |-> Append(h, newHeaders),
       table |-> TableObject(Len(h) + 1, tableData.rows, newAlignments)]

MarkdownTableParser_addColumn(h, tableData, index) ==
  LET headers == h[tableData.headers]
      rows == h[tableData.rows]
      n == Len(rows)
      insertIndex == IF index # Undefined /\ index[1] >= 0 /\ index[1] <= Len(headers)
                     THEN index[1] ELSE Len(headers)
      newHeaders == insertAt(headers, insertIndex, HeaderName(Len(headers) + 1))
      newAlignments == insertAt(tableData.alignments, insertIndex, "left")
      base == Len(h)
      copies == [i \in 1..n |->
                   LET row == h[rows[i]]
                   IN  \* splice past the end of a short row appends
                       IF insertIndex <= Len(row)
                       THEN insertAt(row, insertIndex, <<>>)
                       ELSE Append(row, <<>>)]
  IN  [heap |-> Append((h \o <<newHeaders>>) \o copies, [i \in 1..n |-> base + 1 + i]),
       table |-> TableObject(base + 1, base + n + 2, newAlignments)]

\* removeColumn without the floor of one column
MarkdownTableParser_removeColumn_noFloor(h, tableData, index) ==
  LET headers == h[tableData.headers]
      rows == h[tableData.rows]
      n == Len(rows)
      base == Len(h)
      keep(xs) == filterIdx(xs, (1..Len(xs)) \ {index + 1}, 1)
  IN  IF index < 0 \/ index >= Len(headers)
      THEN [heap |-> h, table |-> tableData]
      ELSE [heap |-> Append((h \o <<keep(headers)>>) \o [i \in 1..n |-> keep(h[rows[i]])],
                            [i \in 1..n |-> base + 1 + i]),
            table |-> TableObject(base + 1, base + n + 2, keep(tableData.alignments))]

MarkdownTableParser_removeColumn(h, tableData, index) ==
  LET headers == h[tableData.headers]
      rows == h[tableData.rows]
      n == Len(rows)
      base == Len(h)
      keep(xs) == filterIdx(xs, (1..Len(xs)) \ {index + 1}, 1)
  IN  IF index < 0 \/ index >= Len(headers) \/ Len(headers) <= 1
      THEN [heap |-> h, table |-> tableData]
      ELSE [heap |-> Append((h \o <<keep(headers)>>) \o [i \in 1..n |-> keep(h[rows[i]])],
                            [i \in 1..n |-> base + 1 + i]),
            table |-> TableObject(base + 1, base + n + 2, keep(tableData.alignments))]

\* updateCell that writes the cell into the arrays of its argument
MarkdownTableParser_updateCell_inPlace(h, tableData, row, col, value) ==
  LET headers == h[tableData.headers]
      rows == h[tableData.rows]
  IN  IF row = -1
      THEN IF col >= 0 /\ col < Len(headers)
           THEN [heap |-> [h EXCEPT ![tableData.headers][col + 1] = value],
                 table |-> TableObject(tableData.headers, tableData.rows, tableData.alignments)]
           ELSE [heap |-> h, table |-> tableData]
      ELSE IF row >= 0 /\ row < Len(rows) /\ col >= 0 /\ col < Len(h[rows[row + 1]])
           THEN [heap |-> [h EXCEPT ![rows[row + 1]][col + 1] = value],
                 table |-> TableObject(tableData.headers, tableData.rows, tableData.alignments)]
           ELSE [heap |-> h, table |-> tableData]

MarkdownTableParser_updateCell(h, tableData, row, col, value) ==
  LET headers == h[tableData.headers]
      rows == h[tableData.rows]
  IN  IF row = -1
      THEN IF col >= 0 /\ col < Len(headers)
           THEN [heap |-> Append(h, [headers EXCEPT ![col + 1] = value]),
                 table |-> TableObject(Len(h) + 1, tableData.rows, tableData.alignments)]
           ELSE [heap |-> h, table |-> tableData]
      ELSE IF row >= 0 /\ row < Len(rows) /\ col >= 0 /\ col < Len(h[rows[row + 1]])
           THEN \* newRows = [...rows]; newRows[row] = [...newRows[row]] with the cell set
                [heap |-> h \o <<[h[rows[row + 1]] EXCEPT ![col + 1] = value],
                                 [rows EXCEPT ![row + 1] = Len(h) + 1]>>,
                 table |-> TableObject(tableData.headers, Len(h) + 2, tableData.alignments)]
           ELSE [heap |-> h, table |-> tableData]

MarkdownTableParser_updateAlignment(h, tableData, col, alignment) ==
  IF col >= 0 /\ col < Len(tableData.alignments)
  THEN [heap |-> h,
        table |-> TableObject(tableData.headers, tableData.rows,
                              [tableData.alignments EXCEPT ![col + 1] = alignment])]
  ELSE [heap |-> h, table |-> tableData]

(***************************************************************************)
(* The application store (useAppStore).                                    *)
(***************************************************************************)
VARIABLES
  heap,             \* the arrays of every TableData object created so far
  tableData,        \* the live table (a TableData object)
  cellStyles,       \* the live style map: cell id -> style record
  selectedCells,    \* the live selection: sequence of [row, col]
  selectedRows,
  selectedColumns,
  markdownContent,  \* the Markdown text of the source view
  history,          \* [past, present, future] of TableState snapshots
  snapshots,        \* number of TableState objects created so far
  settings,         \* the application settings the model needs
  error,            \* the store's error field
  timers,           \* pending setTimeout callbacks, oldest first
  message,          \* the last toast shown: <<level, text key>> or <<>>
  codec,            \* the codec exercise: [pc, table, text, parsed]
  steps,            \* handler invocations so far
  oplog             \* the last operations that ran, most recent last

storeVars == <<heap, tableData, cellStyles, selectedCells, selectedRows,
               selectedColumns, markdownContent, history, snapshots, settings, error>>
vars == <<heap, tableData, cellStyles, selectedCells, selectedRows, selectedColumns,
          markdownContent, history, snapshots, settings, error, timers, message,
          codec, steps, oplog>>

Null == "null"

Text_Column == <<"C", "o", "l", "u", "m", "n", " ">>
Text_Row == <<"R", "o", "w", " ">>
Text_Col == <<" ", "C", "o", "l", " ">>

\* the content of the module-level object defaultTableData
defaultTableValue ==
  [headers |-> [c \in 1..3 |-> Text_Column \o NatText(c)],
   rows |-> [r \in 1..3 |-> [c \in 1..3 |-> Text_Row \o NatText(r) \o Text_Col \o NatText(c)]],
   alignments |-> <<"left", "left", "left">>,
   columnWidths |-> <<150, 150, 150>>]

\* defaultTableData is one object for the whole session: its arrays are
\* the first five of the heap
defaultTableData == newTable(<<>>, defaultTableValue).table

defaultSettings == [maxHistorySize |-> 50]

defaultCellStyle ==
  [backgroundColor |-> "var(--bg-color)", color |-> "var(--text-color)",
   fontSize |-> 14, fontWeight |-> "normal", textAlign |-> "left",
   verticalAlign |-> "middle", borderColor |-> "var(--border-color)",
   borderWidth |-> 1, borderStyle |-> "solid", padding |-> 8,
   fontFamily |-> "Arial, sans-serif"]

\* new Map()
EmptyMap == <<>>

\* object spread {...a, ...b}
spread(a, b) == b @@ a

\* a TableState object; id is its identity.  The timestamp field
\* (Date.now()) is read by no operation and is left out.
TableState(id, data, styles, cells, rows, columns) ==
  [id |-> id, data |-> data, styles |-> styles, selectedCells |-> cells,
   selectedRows |-> rows, selectedColumns |-> columns]

createInitialHistory(id, data) ==
  [past |-> <<>>,
   present |-> TableState(id, data, EmptyMap, <<>>, <<>>, <<>>),
   future |-> <<>>]

\* `${row}-${col}`
getCellId(row, col) == IntText(row) \o <<"-">> \o IntText(col)

\* the store state as one record, as the callbacks given to set() see it
state ==
  [heap |-> heap, tableData |-> tableData, cellStyles |-> cellStyles,
   selectedCells |-> selectedCells, selectedRows |-> selectedRows,
   selectedColumns |-> selectedColumns, markdownContent |-> markdownContent,
   history |-> history, snapshots |-> snapshots, settings |-> settings,
   error |-> error]

\* the store holds s after the step
Set(s) ==
  /\ heap' = s.heap
  /\ tableData' = s.tableData
  /\ cellStyles' = s.cellStyles
  /\ selectedCells' = s.selectedCells
  /\ selectedRows' = s.selectedRows
  /\ selectedColumns' = s.selectedColumns
  /\ markdownContent' = s.markdownContent
  /\ history' = s.history
  /\ snapshots' = s.snapshots
  /\ settings' = s.settings
  /\ error' = s.error

serializeOf(h, data) == MarkdownTableParser_serialize(tableValue(h, data))

initialState ==
  [heap |-> newTable(<<>>, defaultTableValue).heap,
   tableData |-> defaultTableData,
   cellStyles |-> EmptyMap,
   selectedCells |-> <<>>, selectedRows |-> <<>>, selectedColumns |-> <<>>,
   markdownContent |-> MarkdownTableParser_serialize(defaultTableValue),
   history |-> createInitialHistory(1, defaultTableData),
   snapshots |-> 1,
   settings |-> defaultSettings,
   error |-> Null]

(***************************************************************************)
(* Store operations, each a function from the state before to the state    *)
(* after.  `data' is a TableData object already built in s.heap.           *)
(***************************************************************************)
\* setTableData that forgets to empty the redo list
setTableData_keepsFuture(s, data) ==
  [s EXCEPT
     !.tableData = data,
     !.markdownContent = serializeOf(s.heap, data),
     !.snapshots = s.snapshots + 1,
     !.history = [past |-> Append(s.history.past, s.history.present),
                  present |-> TableState(s.snapshots + 1, data, s.cellStyles,
                                         s.selectedCells, s.selectedRows,
                                         s.selectedColumns),
                  future |-> s.history.future]]

setTableData(s, data) ==
  [s EXCEPT
     !.tableData = data,
     !.markdownContent = serializeOf(s.heap, data),
     !.snapshots = s.snapshots + 1,
     !.history = [past |-> Append(s.history.past, s.history.present),
                  present |-> TableState(s.snapshots + 1, data, s.cellStyles,
                                         s.selectedCells, s.selectedRows,
                                         s.selectedColumns),
                  future |-> <<>>]]

\* the common tail of the table edits: the new table and its Markdown
withTable(s, r) ==
  [s EXCEPT !.heap = r.heap, !.tableData = r.table,
            !.markdownContent = serializeOf(r.heap, r.table)]

updateCell(s, row, col, value) ==
  withTable(s, MarkdownTableParser_updateCell(s.heap, s.tableData, row, col, value))

addRow(s, index) ==
  withTable(s, MarkdownTableParser_addRow(s.heap, s.tableData, index))

removeRow(s, index) ==
  withTable(s, MarkdownTableParser_removeRow(s.heap, s.tableData, index))

addColumn(s, index) ==
  LET r == MarkdownTableParser_addColumn(s.heap, s.tableData, index)
      n == Len(r.heap[r.table.headers])
      \* the object the parser returned gets its columnWidths assigned
      widths ==
        IF ~HasWidths(r.table) THEN [i \in 1..n |-> 150]
        ELSE LET insertIndex == IF index # Undefined THEN index[1] ELSE n - 1
                 w == r.table.columnWidths
                 \* splice: a negative start counts from the end, and the
                 \* start is clamped to [0, length]
                 at == IF insertIndex < 0
                       THEN (IF Len(w) + insertIndex < 0 THEN 0 ELSE Len(w) + insertIndex)
                       ELSE (IF insertIndex > Len(w) THEN Len(w) ELSE insertIndex)
             IN  insertAt(w, at, 150)
  IN  withTable(s, [heap |-> r.heap,
                    table |-> [columnWidths |-> widths] @@ r.table])

removeColumn(s, index) ==
  withTable(s, MarkdownTableParser_removeColumn(s.heap, s.tableData, index))

\* an empty slot of a widths array (a write past the end leaves them
\* behind); it reads as undefined, which is no width
EmptyWidth == 0

updateColumnWidth(s, columnIndex, width) ==
  LET t == s.tableData
      n == Len(s.heap[t.headers])
      w0 == IF HasWidths(t) THEN t.columnWidths ELSE [i \in 1..n |-> 150]
      v == IF width > 50 THEN width ELSE 50
  IN  [s EXCEPT !.tableData = [columnWidths |-> arraySet(w0, columnIndex, v, EmptyWidth)] @@ t]

\* setCellStyle overriding the default record, not the cell's
setCellStyle_overDefault(s, cellId, style) ==
  LET currentStyle == defaultCellStyle
  IN  [s EXCEPT !.cellStyles = (cellId :> spread(currentStyle, style)) @@ s.cellStyles]

setCellStyle(s, cellId, style) ==
  LET currentStyle == IF cellId \in DOMAIN s.cellStyles
                      THEN s.cellStyles[cellId] ELSE defaultCellStyle
  IN  [s EXCEPT !.cellStyles = (cellId :> spread(currentStyle, style)) @@ s.cellStyles]

getCellStyle(s, cellId) ==
  IF cellId \in DOMAIN s.cellStyles THEN s.cellStyles[cellId] ELSE defaultCellStyle

updateCellStyle(s, row, col, style) ==
  LET cellId == getCellId(row, col)
      currentStyle == IF cellId \in DOMAIN s.cellStyles
                      THEN s.cellStyles[cellId] ELSE defaultCellStyle
      newStyle == spread(currentStyle, style)
  IN  [s EXCEPT !.cellStyles = (cellId :> newStyle) @@ s.cellStyles]

clearCellStyles(s) == [s EXCEPT !.cellStyles = EmptyMap]

setSelectedCells(s, cells) == [s EXCEPT !.selectedCells = cells]
setSelectedRows(s, rows) == [s EXCEPT !.selectedRows = rows]
setSelectedColumns(s, columns) == [s EXCEPT !.selectedColumns = columns]

clearSelection(s) ==
  [s EXCEPT !.selectedCells = <<>>, !.selectedRows = <<>>, !.selectedColumns = <<>>]

setMarkdownContent(s, content) == [s EXCEPT !.markdownContent = content]

\* syncFromMarkdown that records a history entry for the failed attempt
syncFromMarkdown_commitsFailure(s) ==
  LET parsed == MarkdownTableParser_parse(s.markdownContent)
  IN  IF Threw(parsed)
      THEN [s EXCEPT !.error = parsed.message,
                     !.snapshots = s.snapshots + 1,
                     !.history = [past |-> Append(s.history.past, s.history.present),
                                  present |-> TableState(s.snapshots + 1, s.tableData,
                                                         s.cellStyles, s.selectedCells,
                                                         s.selectedRows, s.selectedColumns),
                                  future |-> <<>>]]
      ELSE LET r == newTable(s.heap, parsed)
           IN  [s EXCEPT !.heap = r.heap, !.tableData = r.table, !.error = Null]

syncFromMarkdown(s) ==
  LET parsed == MarkdownTableParser_parse(s.markdownContent)
  IN  IF Threw(parsed)
      THEN [s EXCEPT !.error = parsed.message]
      ELSE LET r == newTable(s.heap, parsed)
           IN  [s EXCEPT !.heap = r.heap, !.tableData = r.table, !.error = Null]

syncToMarkdown(s) ==
  [s EXCEPT !.markdownContent = serializeOf(s.heap, s.tableData)]

\* undo that takes the oldest entry of past instead of the newest
undo_oldest(s) ==
  LET past == s.history.past
      present == s.history.present
      future == s.history.future
  IN  IF Len(past) = 0 THEN s
      ELSE LET previous == past[1]
               newPast == Tail(past)
           IN  [s EXCEPT
                  !.tableData = previous.data,
                  !.cellStyles = previous.styles,
                  !.selectedCells = previous.selectedCells,
                  !.selectedRows = previous.selectedRows,
                  !.selectedColumns = previous.selectedColumns,
                  !.markdownContent = serializeOf(s.heap, previous.data),
                  !.history = [past |-> newPast, present |-> previous,
                               future |-> <<present>> \o future]]

\* undo that leaves the restored snapshot in past
undo_keepsPast(s) ==
  LET past == s.history.past
      present == s.history.present
      future == s.history.future
  IN  IF Len(past) = 0 THEN s
      ELSE LET previous == past[Len(past)]
               newPast == past
           IN  [s EXCEPT
                  !.tableData = previous.data,
                  !.cellStyles = previous.styles,
                  !.selectedCells = previous.selectedCells,
                  !.selectedRows = previous.selectedRows,
                  !.selectedColumns = previous.selectedColumns,
                  !.markdownContent = serializeOf(s.heap, previous.data),
                  !.history = [past |-> newPast, present |-> previous,
                               future |-> <<present>> \o future]]

undo(s) ==
  LET past == s.history.past
      present == s.history.present
      future == s.history.future
  IN  IF Len(past) = 0 THEN s
      ELSE LET previous == past[Len(past)]
               newPast == SubSeq(past, 1, Len(past) - 1)
           IN  [s EXCEPT
                  !.tableData = previous.data,
                  !.cellStyles = previous.styles,
                  !.selectedCells = previous.selectedCells,
                  !.selectedRows = previous.selectedRows,
                  !.selectedColumns = previous.selectedColumns,
                  !.markdownContent = serializeOf(s.heap, previous.data),
                  !.history = [past |-> newPast, present |-> previous,
                               future |-> <<present>> \o future]]

\* redo that does not push the old present onto past
redo_dropsPresent(s) ==
  LET past == s.history.past
      future == s.history.future
  IN  IF Len(future) = 0 THEN s
      ELSE LET next == future[1]
           IN  [s EXCEPT
                  !.tableData = next.data,
                  !.cellStyles = next.styles,
                  !.selectedCells = next.selectedCells,
                  !.selectedRows = next.selectedRows,
                  !.selectedColumns = next.selectedColumns,
                  !.markdownContent = serializeOf(s.heap, next.data),
                  !.history = [past |-> past, present |-> next,
                               future |-> Tail(future)]]

\* redo that makes next the present but leaves the live table behind
redo_staleTable(s) ==
  LET past == s.history.past
      present == s.history.present
      future == s.history.future
  IN  IF Len(future) = 0 THEN s
      ELSE LET next == future[1]
           IN  [s EXCEPT
                  !.tableData = present.data,
                  !.cellStyles = next.styles,
                  !.selectedCells = next.selectedCells,
                  !.selectedRows = next.selectedRows,
                  !.selectedColumns = next.selectedColumns,
                  !.markdownContent = serializeOf(s.heap, present.data),
                  !.history = [past |-> Append(past, present), present |-> next,
                               future |-> Tail(future)]]

redo(s) ==
  LET past == s.history.past
      present == s.history.present
      future == s.history.future
  IN  IF Len(future) = 0 THEN s
      ELSE LET next == future[1]
               newFuture == Tail(future)
           IN  [s EXCEPT
                  !.tableData = next.data,
                  !.cellStyles = next.styles,
                  !.selectedCells = next.selectedCells,
                  !.selectedRows = next.selectedRows,
                  !.selectedColumns = next.selectedColumns,
                  !.markdownContent = serializeOf(s.heap, next.data),
                  !.history = [past |-> Append(past, present), present |-> next,
                               future |-> newFuture]]

saveToHistory(s) ==
  [s EXCEPT
     !.snapshots = s.snapshots + 1,
     !.history = [past |-> Append(s.history.past, s.history.present),
                  present |-> TableState(s.snapshots + 1, s.tableData, s.cellStyles,
                                         s.selectedCells, s.selectedRows,
                                         s.selectedColumns),
                  future |-> <<>>]]

updateSettings(s, newSettings) == [s EXCEPT !.settings = spread(s.settings, newSettings)]

resetSettings(s) == [s EXCEPT !.settings = defaultSettings]

\* reset installs the module-level defaultTableData object again, whatever
\* its arrays hold by now
reset(s) ==
  [s EXCEPT
     !.tableData = defaultTableData,
     !.cellStyles = EmptyMap,
     !.selectedCells = <<>>, !.selectedRows = <<>>, !.selectedColumns = <<>>,
     !.markdownContent = serializeOf(s.heap, defaultTableData),
     !.snapshots = s.snapshots + 1,
     !.history = createInitialHistory(s.snapshots + 1, defaultTableData),
     !.settings = defaultSettings,
     !.error = Null]

(***************************************************************************)
(* Inputs of the operations.                                               *)
(***************************************************************************)
TableA == [headers |-> << <<"A">> >>, rows |-> << << <<"1">> >> >>, alignments |-> <<"left">>]
TableB == [headers |-> << <<"B">> >>, rows |-> << << <<"2">> >> >>, alignments |-> <<"right">>]
InputTables == {TableA, TableB}

CellX == <<"x">>
\* the first header cell and the first data cell
CellInputs == {<<-1, 0>>, <<0, 0>>}
IndexInputs == {0}
OptIndexInputs == {Undefined, Some(0)}
WidthInputs == {<<1, 20>>}
Bold == [fontWeight |-> "bold"]
Red == [color |-> "red"]
StyleInputs == {Bold}
Cell00 == [row |-> 0, col |-> 0]
CellH1 == [row |-> -1, col |-> 1]
SelectionInputs == {<<CellH1, Cell00>>}
\* a draft that is no table, and a table written without borders
DraftText == <<"d", "r", "a", "f", "t">>
BareTableText == <<"A", "|", "B", NL, "-", "|", "-", ":">>
MarkdownInputs == {DraftText, BareTableText}
\* the settings panel offers 10..200 in steps of 10
HistorySizeInputs == {10}

(***************************************************************************)
(* Actions: one per store operation called on its own ...                  *)
(***************************************************************************)
StoreInit ==
  /\ heap = initialState.heap
  /\ tableData = initialState.tableData
  /\ cellStyles = initialState.cellStyles
  /\ selectedCells = initialState.selectedCells
  /\ selectedRows = initialState.selectedRows
  /\ selectedColumns = initialState.selectedColumns
  /\ markdownContent = initialState.markdownContent
  /\ history = initialState.history
  /\ snapshots = initialState.snapshots
  /\ settings = initialState.settings
  /\ error = initialState.error
  /\ timers = <<>>
  /\ message = <<>>
  /\ steps = 0
  /\ oplog = <<>>

Init ==
  /\ StoreInit
  /\ codec = [pc |-> "idle"]

\* the log keeps the last LogLength operations
Logged(log, op) ==
  IF Len(log) < LogLength THEN Append(log, op) ELSE Append(Tail(log), op)

Step(op) ==
  /\ steps < MaxSteps
  /\ steps' = steps + 1
  /\ oplog' = Logged(oplog, op)

lastOp == IF oplog = <<>> THEN "init" ELSE oplog[Len(oplog)]

StoreCall(op, s) ==
  /\ Step(op)
  /\ Set(s)
  /\ UNCHANGED <<timers, message, codec>>

SetTableData ==
  \E tv \in InputTables :
    LET r == newTable(heap, tv)
    IN  StoreCall("setTableData", setTableData([state EXCEPT !.heap = r.heap], r.table))

UpdateCell ==
  \E c \in CellInputs : StoreCall("updateCell", updateCell(state, c[1], c[2], CellX))

AddRow == \E i \in OptIndexInputs : StoreCall("addRow", addRow(state, i))

RemoveRow == \E i \in IndexInputs : StoreCall("removeRow", removeRow(state, i))

AddColumn == \E i \in OptIndexInputs : StoreCall("addColumn", addColumn(state, i))

RemoveColumn == \E i \in IndexInputs : StoreCall("removeColumn", removeColumn(state, i))

UpdateColumnWidth ==
  \E w \in WidthInputs : StoreCall("updateColumnWidth", updateColumnWidth(state, w[1], w[2]))

SetCellStyle ==
  \E st \in StyleInputs : StoreCall("setCellStyle", setCellStyle(state, getCellId(0, 0), st))

UpdateCellStyle ==
  \E st \in StyleInputs : StoreCall("updateCellStyle", updateCellStyle(state, -1, 0, st))

ClearCellStyles == StoreCall("clearCellStyles", clearCellStyles(state))

SetSelectedCells ==
  \E cells \in SelectionInputs : StoreCall("setSelectedCells", setSelectedCells(state, cells))

SetSelectedRows == StoreCall("setSelectedRows", setSelectedRows(state, <<0>>))

SetSelectedColumns == StoreCall("setSelectedColumns", setSelectedColumns(state, <<1>>))

ClearSelection == StoreCall("clearSelection", clearSelection(state))

SetMarkdownContent ==
  \E text \in MarkdownInputs : StoreCall("setMarkdownContent", setMarkdownContent(state, text))

SyncFromMarkdown == StoreCall("syncFromMarkdown", syncFromMarkdown(state))

SyncToMarkdown == StoreCall("syncToMarkdown", syncToMarkdown(state))

Undo == StoreCall("undo", undo(state))

Redo == StoreCall("redo", redo(state))

SaveToHistory == StoreCall("saveToHistory", saveToHistory(state))

UpdateSettings ==
  \E n \in HistorySizeInputs :
    StoreCall("updateSettings", updateSettings(state, [maxHistorySize |-> n]))

ResetSettings == StoreCall("resetSettings", resetSettings(state))

Reset == StoreCall("reset", reset(state))

(***************************************************************************)
(* ... and one per UI handler.  A handler sees the store as of the last    *)
(* render, which is the current store when it starts.                      *)
(***************************************************************************)
\* TableEditor.handleCellChange: writes the cell into the arrays of the
\* live table, commits the shallow copy, and arms a one-second timer that
\* saves to history (the cleanup it returns is dropped by the caller)
handleCellChange(s, row, col, value) ==
  LET t == s.tableData
      h0 == s.heap
      rows == h0[t.rows]
      h1 == IF row = -1
            THEN [h0 EXCEPT ![t.headers] = arraySet(@, col, value, <<>>)]
            ELSE IF row >= Len(rows)
                 \* !newData.rows[row]: a new row array is stored in place
                 THEN LET fresh == Len(h0) + 1
                          hA == Append(h0, blankRow(Len(h0[t.headers])))
                          hB == [hA EXCEPT ![t.rows] = arraySet(@, row, fresh, Null)]
                      IN  [hB EXCEPT ![fresh] = arraySet(@, col, value, <<>>)]
                 ELSE [h0 EXCEPT ![rows[row + 1]] = arraySet(@, col, value, <<>>)]
      newData == t
      s1 == setTableData([s EXCEPT !.heap = h1], newData)
  IN  setMarkdownContent(s1, serializeOf(s1.heap, newData))

\* setTimeout(callback, delay) called by the handler of the step being
\* taken: the callback, its delay in milliseconds, the value its closure
\* captured (<<>> when none) and the number of the step that armed it
Timer(callback, delay, value) ==
  [callback |-> callback, delay |-> delay, value |-> value, at |-> steps + 1]

\* timer i can be the next to run: every timer armed before it and still
\* pending has a longer delay
due(i) == \A j \in 1..(i - 1) : timers[j].delay > timers[i].delay

\* the pending timers without timer i
withoutTimer(i) == SubSeq(timers, 1, i - 1) \o SubSeq(timers, i + 1, Len(timers))

HandleCellChange ==
  \E c \in CellInputs :
    /\ c[1] <= Len(heap[tableData.rows])
    /\ Step("handleCellChange")
    /\ Set(handleCellChange(state, c[1], c[2], CellX))
    /\ timers' = Append(timers, Timer("saveToHistory", 1000, <<>>))
    /\ UNCHANGED <<message, codec>>

\* a pending saveToHistory timer runs
TimerFires ==
  \E i \in 1..Len(timers) :
    /\ due(i)
    /\ timers[i].callback = "saveToHistory"
    /\ Step("timer:saveToHistory")
    /\ Set(saveToHistory(state))
    /\ timers' = withoutTimer(i)
    /\ UNCHANGED <<message, codec>>

\* Header.handleUndo / HistoryPanel.handleUndo
HandleUndo ==
  /\ Step("handleUndo")
  /\ IF Len(history.past) > 0
     THEN Set(undo(state)) /\ message' = <<"success", "history.undoSuccess">>
     ELSE UNCHANGED storeVars /\ message' = <<"info", "history.noUndoOperations">>
  /\ UNCHANGED <<timers, codec>>

\* Header.handleRedo / HistoryPanel.handleRedo
HandleRedo ==
  /\ Step("handleRedo")
  /\ IF Len(history.future) > 0
     THEN Set(redo(state)) /\ message' = <<"success", "history.redoSuccess">>
     ELSE UNCHANGED storeVars /\ message' = <<"info", "history.noRedoOperations">>
  /\ UNCHANGED <<timers, codec>>

\* StylePanel.applyStyle: with no selection only the panel's preview
\* changes; otherwise every selected cell is restyled in turn
RECURSIVE applyStyleTo(_, _, _)
applyStyleTo(s, cells, styleUpdate) ==
  IF cells = <<>> THEN s
  ELSE applyStyleTo(updateCellStyle(s, cells[1].row, cells[1].col, styleUpdate),
                    Tail(cells), styleUpdate)

applyStyle(s, styleUpdate) ==
  IF Len(s.selectedCells) = 0 THEN s
  ELSE applyStyleTo(s, s.selectedCells, styleUpdate)

ApplyStyle ==
  \E st \in {Red} :
    /\ Step("applyStyle")
    /\ Set(applyStyle(state, st))
    /\ UNCHANGED <<timers, message, codec>>

Next ==
  \/ SetTableData
  \/ UpdateCell
  \/ AddRow
  \/ RemoveRow
  \/ AddColumn
  \/ RemoveColumn
  \/ UpdateColumnWidth
  \/ SetCellStyle
  \/ UpdateCellStyle
  \/ ClearCellStyles
  \/ SetSelectedCells
  \/ SetSelectedRows
  \/ SetSelectedColumns
  \/ ClearSelection
  \/ SetMarkdownContent
  \/ SyncFromMarkdown
  \/ SyncToMarkdown
  \/ Undo
  \/ Redo
  \/ SaveToHistory
  \/ UpdateSettings
  \/ ResetSettings
  \/ Reset
  \/ HandleCellChange
  \/ TimerFires
  \/ HandleUndo
  \/ HandleRedo
  \/ ApplyStyle

Spec == Init /\ [][Next]_vars

(***************************************************************************)
(* The history engine with the edits that feed it: the commits, undo and   *)
(* redo, one edit of each part of the live state, and the grid's cell      *)
(* editor with its deferred save.                                          *)
(***************************************************************************)
HistoryNext ==
  \/ SetTableData
  \/ SaveToHistory
  \/ Undo
  \/ Redo
  \/ UpdateCell
  \/ UpdateCellStyle
  \/ SetSelectedCells
  \/ SetMarkdownContent
  \/ SyncFromMarkdown
  \/ HandleCellChange
  \/ TimerFires

HistorySpec == Init /\ [][HistoryNext]_vars

(***************************************************************************)
(* The history at depth: commits, undos and redos only, with the history   *)
(* size set from the settings panel, for MaxDepth commits.                 *)
(***************************************************************************)
Commits ==
  {[op |-> "saveToHistory"]} \cup {[op |-> "setTableData", data |-> tv] : tv \in InputTables}

\* the commit c applied to s
commit(s, c) ==
  IF c.op = "saveToHistory" THEN saveToHistory(s)
  ELSE LET r == newTable(s.heap, c.data)
       IN  setTableData([s EXCEPT !.heap = r.heap], r.table)

DepthCall(s) ==
  /\ Set(s)
  /\ UNCHANGED <<timers, message, codec, steps, oplog>>

DepthConfigure ==
  \E n \in HistorySizeInputs : DepthCall(updateSettings(state, [maxHistorySize |-> n]))

\* snapshots - 1 commits were made so far
DepthCommit ==
  /\ snapshots <= MaxDepth
  /\ DepthCall(saveToHistory(state))

DepthUndo == DepthCall(undo(state))

DepthRedo == DepthCall(redo(state))

HistoryDepthNext ==
  \/ DepthConfigure
  \/ DepthCommit
  \/ DepthUndo
  \/ DepthRedo

HistoryDepthSpec == Init /\ [][HistoryDepthNext]_vars

(***************************************************************************)
(* The codec on its own: a table is serialized, the text parsed back.      *)
(***************************************************************************)
CodecCells == {<<>>, <<"a">>, <<" ", "b">>, <<"|">>}
Alignments == {"left", "center", "right"}

CodecTables ==
  UNION {[headers : [1..n -> CodecCells],
          rows : UNION {[1..r -> [1..n -> CodecCells]] : r \in 0..MaxCodecRows},
          alignments : [1..n -> Alignments]] : n \in 1..MaxCodecCols}

CodecInit ==
  /\ StoreInit
  /\ codec \in {[pc |-> "input", table |-> t] : t \in CodecTables}

CodecIdle == UNCHANGED <<heap, tableData, cellStyles, selectedCells, selectedRows,
                         selectedColumns, markdownContent, history, snapshots,
                         settings, error, timers, message, steps, oplog>>

CodecSerialize ==
  /\ codec.pc = "input"
  /\ codec' = [pc |-> "serialized", table |-> codec.table,
               text |-> MarkdownTableParser_serialize(codec.table)]
  /\ CodecIdle

CodecParse ==
  /\ codec.pc = "serialized"
  /\ codec' = [pc |-> "parsed", table |-> codec.table, text |-> codec.text,
               parsed |-> MarkdownTableParser_parse(codec.text)]
  /\ CodecIdle

CodecNext ==
  \/ CodecSerialize
  \/ CodecParse

CodecSpec == CodecInit /\ [][CodecNext]_vars

(***************************************************************************)
(* The codec applied twice: the parsed table is serialized again, as       *)
(* format does with the text it is given.                                  *)
(***************************************************************************)
\* MarkdownTableParser.format: the text itself where parse throws
MarkdownTableParser_format(markdown) ==
  LET parsed == MarkdownTableParser_parse(markdown)
  IN  IF Threw(parsed) THEN markdown ELSE MarkdownTableParser_serialize(parsed)

CodecFormat ==
  /\ codec.pc = "parsed"
  /\ codec' = [pc |-> "formatted", table |-> codec.table, text |-> codec.text,
               parsed |-> codec.parsed,
               formatted |-> MarkdownTableParser_format(codec.text)]
  /\ CodecIdle

CodecFormatNext ==
  \/ CodecSerialize
  \/ CodecParse
  \/ CodecFormat

CodecFormatSpec == CodecInit /\ [][CodecFormatNext]_vars

(***************************************************************************)
(* The column operations of the store on their own, from the default       *)
(* table, with index arguments below, inside and beyond the table.         *)
(***************************************************************************)
\* the default table has columns 0..2
ColumnIndexInputs == {-1, 0, 1, 9}
AddColumnInputs == {Undefined} \cup {Some(i) : i \in ColumnIndexInputs}
\* [index, width]: below the minimum width, above it, the index one past the
\* default table, a negative index
ColumnWidthInputs == {<<1, 20>>, <<0, 200>>, <<3, 200>>, <<-1, 60>>}

AddColumnAt == \E i \in AddColumnInputs : StoreCall("addColumn", addColumn(state, i))

RemoveColumnAt ==
  \E i \in ColumnIndexInputs : StoreCall("removeColumn", removeColumn(state, i))

UpdateColumnWidthAt ==
  \E w \in ColumnWidthInputs :
    StoreCall("updateColumnWidth", updateColumnWidth(state, w[1], w[2]))

ColumnNext ==
  \/ AddColumnAt
  \/ RemoveColumnAt
  \/ UpdateColumnWidthAt

ColumnSpec == Init /\ [][ColumnNext]_vars

(***************************************************************************)
(* The Markdown source view next to the grid: keystrokes arm the live      *)
(* parse, the apply button parses at once, the grid's cell editor arms its *)
(* deferred save, and undo and redo come in between.  The source view's    *)
(* localContent is the store's markdownContent whenever a handler starts:  *)
(* the effect that copies markdownContent over a differing localContent    *)
(* has run by then.                                                        *)
(***************************************************************************)
\* the callback armed by MarkdownEditor.handleContentChange, run on the
\* text its closure captured
liveParse(s, value) ==
  IF MarkdownTableParser_validate(value)
  THEN LET r == newTable(s.heap, MarkdownTableParser_parse(value))
       IN  setTableData([s EXCEPT !.heap = r.heap], r.table)
  ELSE s

\* MarkdownEditor.applyChanges: [state, message]
applyChanges(s) ==
  LET localContent == s.markdownContent
      s1 == setMarkdownContent(s, localContent)
  IN  IF MarkdownTableParser_validate(localContent)
      THEN LET r == newTable(s1.heap, MarkdownTableParser_parse(localContent))
               s2 == setTableData([s1 EXCEPT !.heap = r.heap], r.table)
           IN  [state |-> saveToHistory(s2), message |-> <<"success", "table updated">>]
      ELSE [state |-> s1, message |-> <<"warning", "no valid table">>]

\* a keystroke in the source view (the cleanup that handleContentChange
\* returns is dropped by the onChange that calls it)
HandleContentChange ==
  \E value \in MarkdownInputs :
    /\ Step("handleContentChange")
    /\ timers' = Append(timers, Timer("liveParse", 500, value))
    /\ UNCHANGED storeVars
    /\ UNCHANGED <<message, codec>>

\* a pending live-parse timer runs
LiveParseFires ==
  \E i \in 1..Len(timers) :
    /\ due(i)
    /\ timers[i].callback = "liveParse"
    /\ Step("timer:liveParse")
    /\ Set(liveParse(state, timers[i].value))
    /\ timers' = withoutTimer(i)
    /\ UNCHANGED <<message, codec>>

ApplyChanges ==
  /\ Step("applyChanges")
  /\ Set(applyChanges(state).state)
  /\ message' = applyChanges(state).message
  /\ UNCHANGED <<timers, codec>>

EditorNext ==
  \/ HandleContentChange
  \/ LiveParseFires
  \/ ApplyChanges
  \/ SetMarkdownContent
  \/ SyncFromMarkdown
  \/ HandleCellChange
  \/ TimerFires
  \/ Undo
  \/ Redo

EditorSpec == Init /\ [][EditorNext]_vars

(***************************************************************************)
(* The toolbar's sort, on cell texts made of spaces, digits and the        *)
(* letters a and b.                                                        *)
(***************************************************************************)
Digits == <<"0", "1", "2", "3", "4", "5", "6", "7", "8", "9">>
IsDigit(c) == \E d \in 1..10 : Digits[d] = c
digitValue(c) == (CHOOSE d \in 1..10 : Digits[d] = c) - 1

\* the number written by the digits at the start of text, after acc
RECURSIVE leadingNumber(_, _)
leadingNumber(text, acc) ==
  IF text # <<>> /\ IsDigit(Head(text))
  THEN leadingNumber(Tail(text), 10 * acc + digitValue(Head(text)))
  ELSE acc

\* parseFloat: leading whitespace is skipped and the longest numeric prefix
\* read; <<>> stands for NaN
parseFloat(text) ==
  LET t == trimStart(text)
  IN  IF t # <<>> /\ IsDigit(Head(t)) THEN <<leadingNumber(t, 0)>> ELSE <<>>

LowerCase == <<"a", "b", "c", "d", "e", "f", "g", "h", "i", "j", "k", "l", "m",
               "n", "o", "p", "q", "r", "s", "t", "u", "v", "w", "x", "y", "z">>
UpperCase == <<"A", "B", "C", "D", "E", "F", "G", "H", "I", "J", "K", "L", "M",
               "N", "O", "P", "Q", "R", "S", "T", "U", "V", "W", "X", "Y", "Z">>

\* the collation order of the characters: space and punctuation, digits,
\* letters in alphabetical order
CharRanks ==
  [d \in {Digits[i] : i \in 1..10} |-> 1 + digitValue(d)]
    @@ [c \in {LowerCase[i] : i \in 1..26} |-> 10 + (CHOOSE l \in 1..26 : LowerCase[l] = c)]
    @@ [c \in {UpperCase[i] : i \in 1..26} |-> 10 + (CHOOSE l \in 1..26 : UpperCase[l] = c)]

charRank(c) == IF c \in DOMAIN CharRanks THEN CharRanks[c] ELSE 0

\* String.prototype.localeCompare: negative, zero or positive
RECURSIVE localeCompare(_, _)
localeCompare(a, b) ==
  IF a = <<>> /\ b = <<>> THEN 0
  ELSE IF a = <<>> THEN -1
  ELSE IF b = <<>> THEN 1
  ELSE IF charRank(Head(a)) < charRank(Head(b)) THEN -1
  ELSE IF charRank(Head(a)) > charRank(Head(b)) THEN 1
  ELSE localeCompare(Tail(a), Tail(b))

\* row[columnIndex] || ''
cellOrEmpty(row, columnIndex) ==
  IF columnIndex >= 0 /\ columnIndex < Len(row) THEN row[columnIndex + 1] ELSE <<>>

\* the comparison function sortColumn gives to Array.prototype.sort
compareRows(a, b, columnIndex, ascending) ==
  LET aValue == cellOrEmpty(a, columnIndex)
      bValue == cellOrEmpty(b, columnIndex)
      aNum == parseFloat(aValue)
      bNum == parseFloat(bValue)
  IN  IF aNum # <<>> /\ bNum # <<>>
      THEN (IF ascending THEN aNum[1] - bNum[1] ELSE bNum[1] - aNum[1])
      ELSE (IF ascending THEN localeCompare(aValue, bValue)
            ELSE localeCompare(bValue, aValue))

\* the comparison function is consistent on rows: it orders them totally,
\* up to ties
consistentComparison(rows, columnIndex, ascending) ==
  LET cmp(i, j) == compareRows(rows[i], rows[j], columnIndex, ascending)
      n == 1..Len(rows)
  IN  /\ \A i, j \in n : (cmp(i, j) < 0) <=> (cmp(j, i) > 0)
      /\ \A i, j, k \in n : (cmp(i, j) <= 0 /\ cmp(j, k) <= 0) => cmp(i, k) <= 0

\* Array.prototype.sort with a consistent comparison: the stable sort of the
\* row references
RECURSIVE stableSort(_, _, _, _)
stableSort(h, refs, columnIndex, ascending) ==
  IF refs = <<>> THEN <<>>
  ELSE LET n == Len(refs)
           sorted == stableSort(h, SubSeq(refs, 1, n - 1), columnIndex, ascending)
           last == refs[n]
           before == {i \in 1..Len(sorted) :
                        compareRows(h[sorted[i]], h[last], columnIndex, ascending) <= 0}
       IN  insertAt(sorted, Cardinality(before), last)

\* the arrays [...rows].sort(compare) can give: with an inconsistent
\* comparison the order is implementation-defined, any permutation
sortOutcomes(h, refs, columnIndex, ascending) ==
  IF consistentComparison([i \in 1..Len(refs) |-> h[refs[i]]], columnIndex, ascending)
  THEN {stableSort(h, refs, columnIndex, ascending)}
  ELSE {[i \in 1..Len(refs) |-> refs[p[i]]] : p \in Permutations(1..Len(refs))}

\* Toolbar.sortColumn with newRows the array the sort gave: [state, message]
sortColumn(s, ascending, newRows) ==
  IF Len(s.selectedCells) = 0
  THEN [state |-> s, message |-> <<"warning", "select a column first">>]
  ELSE LET t == s.tableData
           h1 == Append(s.heap, newRows)
           \* {...tableData, rows: newRows}
           newData == [t EXCEPT !.rows = Len(h1)]
           s1 == setTableData([s EXCEPT !.heap = h1], newData)
           s2 == setMarkdownContent(s1, serializeOf(s1.heap, newData))
       IN  [state |-> saveToHistory(s2), message |-> <<"success", "sorted">>]

\* the columns given to the sort: numbers, numbers whose string order
\* differs, strings with a tie, numbers that tie with different texts, a
\* mix of numbers and strings
SortColumnInputs ==
  {<<>>,
   << <<"3">>, <<"1">>, <<"2">> >>,
   << <<"2">>, <<"1", "0">>, <<"1">> >>,
   << <<"b">>, <<"a">>, <<"b">> >>,
   << <<"1">>, <<" ", "1">>, <<"0">>, <<"1">> >>,
   << <<"3">>, <<" ", "a">>, <<" ", "6">> >>}

\* one-column tables
SortTables ==
  {[headers |-> << <<"N">> >>,
    rows |-> [i \in 1..Len(cells) |-> <<cells[i]>>],
    alignments |-> <<"right">>] : cells \in SortColumnInputs}

\* the store holds s
Holds(s) ==
  /\ heap = s.heap
  /\ tableData = s.tableData
  /\ cellStyles = s.cellStyles
  /\ selectedCells = s.selectedCells
  /\ selectedRows = s.selectedRows
  /\ selectedColumns = s.selectedColumns
  /\ markdownContent = s.markdownContent
  /\ history = s.history
  /\ snapshots = s.snapshots
  /\ settings = s.settings
  /\ error = s.error

\* a session in which a table has been loaded with setTableData
SortInit ==
  /\ \E tv \in SortTables :
       LET r == newTable(initialState.heap, tv)
       IN  Holds(setTableData([initialState EXCEPT !.heap = r.heap], r.table))
  /\ timers = <<>>
  /\ message = <<>>
  /\ steps = 0
  /\ oplog = <<>>
  /\ codec = [pc |-> "idle"]

SortSelect == StoreCall("setSelectedCells", setSelectedCells(state, <<Cell00>>))

SortColumn ==
  \E ascending \in BOOLEAN :
    \E newRows \in IF Len(selectedCells) = 0 THEN {<<>>}
                    ELSE sortOutcomes(heap, heap[tableData.rows],
                                      selectedCells[1].col, ascending) :
      /\ Step(IF ascending THEN "sortColumn:ascending" ELSE "sortColumn:descending")
      /\ Set(sortColumn(state, ascending, newRows).state)
      /\ message' = sortColumn(state, ascending, newRows).message
      /\ UNCHANGED <<timers, codec>>

SortNext ==
  \/ SortSelect
  \/ SortColumn

SortSpec == SortInit /\ [][SortNext]_vars

(***************************************************************************)
(* The cell and row operations of the store on their own, from the         *)
(* default table.                                                          *)
(***************************************************************************)
RowCellNext ==
  \/ UpdateCell
  \/ AddRow
  \/ RemoveRow

RowCellSpec == Init /\ [][RowCellNext]_vars

(***************************************************************************)
(* The toolbar's bulk deletion: cells are selected in the grid, then the   *)
(* rows or the columns of the selected cells are deleted.                  *)
(***************************************************************************)
\* the values of field f over the selected cells (new Set(cells.map(...)))
selectedIndices(cells, f) == {cells[i][f] : i \in 1..Len(cells)}

\* Toolbar.deleteRow: [state, message]
deleteRow(s) ==
  LET t == s.tableData
      rows == s.heap[t.rows]
  IN  IF Len(rows) <= 1
      THEN [state |-> s, message |-> <<"warning", "keep one row">>]
      ELSE IF Len(s.selectedCells) = 0
      THEN [state |-> s, message |-> <<"warning", "select rows first">>]
      ELSE LET rowsToDelete == selectedIndices(s.selectedCells, "row")
               newRows == filterIdx(rows, {i \in 1..Len(rows) : (i - 1) \notin rowsToDelete}, 1)
               h1 == Append(s.heap, newRows)
               \* {...tableData, rows: newRows}
               newData == [t EXCEPT !.rows = Len(h1)]
               s1 == setTableData([s EXCEPT !.heap = h1], newData)
               s2 == setMarkdownContent(s1, serializeOf(s1.heap, newData))
           IN  [state |-> saveToHistory(s2), message |-> <<"success", "rows deleted">>]

\* Toolbar.deleteColumn: [state, message]
deleteColumn(s) ==
  LET t == s.tableData
      headers == s.heap[t.headers]
      rows == s.heap[t.rows]
      n == Len(rows)
  IN  IF Len(headers) <= 1
      THEN [state |-> s, message |-> <<"warning", "keep one column">>]
      ELSE IF Len(s.selectedCells) = 0
      THEN [state |-> s, message |-> <<"warning", "select columns first">>]
      ELSE LET columnsToDelete == selectedIndices(s.selectedCells, "col")
               keep(xs) == filterIdx(xs, {i \in 1..Len(xs) : (i - 1) \notin columnsToDelete}, 1)
               r == newTable(s.heap, [headers |-> keep(headers),
                                      rows |-> [i \in 1..n |-> keep(s.heap[rows[i]])],
                                      alignments |-> keep(t.alignments)])
               s1 == setTableData([s EXCEPT !.heap = r.heap], r.table)
               s2 == setMarkdownContent(s1, serializeOf(s1.heap, r.table))
           IN  [state |-> saveToHistory(s2), message |-> <<"success", "columns deleted">>]

Cell(row, col) == [row |-> row, col |-> col]
\* one cell; a header cell with a data cell; a cell of every row; a cell of
\* every column
BulkSelections ==
  {<<Cell(0, 0)>>,
   <<Cell(-1, 1), Cell(1, 1)>>,
   <<Cell(0, 0), Cell(1, 0), Cell(2, 0)>>,
   <<Cell(0, 0), Cell(0, 1), Cell(0, 2)>>}

BulkSelect ==
  \E cells \in BulkSelections : StoreCall("setSelectedCells", setSelectedCells(state, cells))

DeleteRow ==
  /\ Step("deleteRow")
  /\ Set(deleteRow(state).state)
  /\ message' = deleteRow(state).message
  /\ UNCHANGED <<timers, codec>>

DeleteColumn ==
  /\ Step("deleteColumn")
  /\ Set(deleteColumn(state).state)
  /\ message' = deleteColumn(state).message
  /\ UNCHANGED <<timers, codec>>

BulkNext ==
  \/ BulkSelect
  \/ DeleteRow
  \/ DeleteColumn

BulkSpec == Init /\ [][BulkNext]_vars

(***************************************************************************)
(* The store operations that keep the markdown text in step with the       *)
(* table: every table operation, the two syncs, undo, redo and reset, and  *)
(* no setMarkdownContent.                                                  *)
(***************************************************************************)
PipeCell == <<"a", "|", "b">>

UpdateCellText ==
  \E value \in {CellX, PipeCell} :
    StoreCall("updateCell", updateCell(state, 0, 0, value))

SyncNext ==
  \/ SetTableData
  \/ UpdateCellText
  \/ AddRow
  \/ RemoveRow
  \/ AddColumn
  \/ RemoveColumn
  \/ UpdateColumnWidth
  \/ SyncFromMarkdown
  \/ SyncToMarkdown
  \/ Undo
  \/ Redo
  \/ Reset

SyncSpec == Init /\ [][SyncNext]_vars

(***************************************************************************)
(* The cell styles on their own, as the style panel sets them.             *)
(***************************************************************************)
StyleKeys == {getCellId(0, 0), getCellId(-1, 0)}
StyleArguments == {Bold, Red, [fontWeight |-> "normal", fontSize |-> 16]}

SetCellStyleAt ==
  \E cellId \in StyleKeys, style \in StyleArguments :
    StoreCall("setCellStyle", setCellStyle(state, cellId, style))

UpdateCellStyleAt ==
  \E style \in StyleArguments :
    StoreCall("updateCellStyle", updateCellStyle(state, 0, 0, style))

StyleNext ==
  \/ SetCellStyleAt
  \/ UpdateCellStyleAt
  \/ ClearCellStyles

StyleSpec == Init /\ [][StyleNext]_vars

(***************************************************************************)
(* The toolbar: every handler builds a table from the live one, gives it   *)
(* to setTableData, sets the markdown text and calls saveToHistory.        *)
(***************************************************************************)
\* the label of the n-th column; L stands for the character the source
\* writes before the number
ColumnLabel(n) == <<"L">> \o NatText(n)

\* Toolbar.addRow: [state, message]
Toolbar_addRow(s) ==
  LET t == s.tableData
      h1 == Append(s.heap, blankRow(Len(s.heap[t.headers])))
      h2 == Append(h1, Append(s.heap[t.rows], Len(h1)))
      \* {...tableData, rows: [...tableData.rows, newRow]}
      newData == [t EXCEPT !.rows = Len(h2)]
      s1 == setTableData([s EXCEPT !.heap = h2], newData)
      s2 == setMarkdownContent(s1, serializeOf(s1.heap, newData))
  IN  [state |-> saveToHistory(s2), message |-> <<"success", "row added">>]

\* Toolbar.addColumn: [state, message]
Toolbar_addColumn(s) ==
  LET t == s.tableData
      headers == s.heap[t.headers]
      rows == s.heap[t.rows]
      r == newTable(s.heap,
                    [headers |-> Append(headers, ColumnLabel(Len(headers) + 1)),
                     rows |-> [i \in 1..Len(rows) |-> Append(s.heap[rows[i]], <<>>)],
                     alignments |-> Append(t.alignments, "left")])
      s1 == setTableData([s EXCEPT !.heap = r.heap], r.table)
      s2 == setMarkdownContent(s1, serializeOf(s1.heap, r.table))
  IN  [state |-> saveToHistory(s2), message |-> <<"success", "column added">>]

\* Toolbar.setAlignment: [state, message]
setAlignment(s, alignment) ==
  IF Len(s.selectedCells) = 0
  THEN [state |-> s, message |-> <<"warning", "select cells first">>]
  ELSE LET t == s.tableData
           columnsToAlign == selectedIndices(s.selectedCells, "col")
           newAlignments == [i \in 1..Len(t.alignments) |->
                               IF (i - 1) \in columnsToAlign THEN alignment
                               ELSE t.alignments[i]]
           \* {...tableData, alignments: newAlignments}
           newData == [t EXCEPT !.alignments = newAlignments]
           s1 == setTableData(s, newData)
           s2 == setMarkdownContent(s1, serializeOf(s1.heap, newData))
       IN  [state |-> saveToHistory(s2), message |-> <<"success", "aligned">>]

\* Toolbar.pasteData once the clipboard text has been read: [state, message]
pasteData(s, text) ==
  LET lines == SelectSeq(split(text, NL), LAMBDA line : trim(line) # <<>>)
  IN  IF Len(lines) = 0
      THEN [state |-> s, message |-> <<"warning", "clipboard is empty">>]
      ELSE LET t == s.tableData
               headers == s.heap[t.headers]
               rows == [i \in 1..Len(lines) |-> split(lines[i], "\t")]
               maxCols == CHOOSE m \in {Len(rows[i]) : i \in 1..Len(rows)} :
                            \A i \in 1..Len(rows) : Len(rows[i]) <= m
               width == IF Len(headers) < maxCols THEN maxCols ELSE Len(headers)
               newHeaders == [i \in 1..width |->
                                IF i <= Len(headers) THEN headers[i] ELSE ColumnLabel(i)]
               newAlignments == [i \in 1..width |->
                                   IF i <= Len(t.alignments) THEN t.alignments[i] ELSE "left"]
               paddedRow(row) == [i \in 1..maxCols |-> IF i <= Len(row) THEN row[i] ELSE <<>>]
               \* [...tableData.rows, ...rows.map(pad)]: the old rows are shared
               h1 == Append(s.heap, newHeaders)
               h2 == h1 \o [i \in 1..Len(rows) |-> paddedRow(rows[i])]
               h3 == Append(h2, s.heap[t.rows] \o [i \in 1..Len(rows) |-> Len(h1) + i])
               newData == TableObject(Len(h1), Len(h3), newAlignments)
               s1 == setTableData([s EXCEPT !.heap = h3], newData)
               s2 == setMarkdownContent(s1, serializeOf(s1.heap, newData))
           IN  [state |-> saveToHistory(s2), message |-> <<"success", "pasted">>]

\* the clear-content menu item: [state, message]
clearContent(s) ==
  LET t == s.tableData
      rows == s.heap[t.rows]
      h1 == s.heap \o [i \in 1..Len(rows) |-> blankRow(Len(s.heap[rows[i]]))]
      h2 == Append(h1, [i \in 1..Len(rows) |-> Len(s.heap) + i])
      \* {...tableData, rows: newRows}
      newData == [t EXCEPT !.rows = Len(h2)]
      s1 == setTableData([s EXCEPT !.heap = h2], newData)
      s2 == setMarkdownContent(s1, serializeOf(s1.heap, newData))
  IN  [state |-> saveToHistory(s2), message |-> <<"success", "cleared">>]

\* the reset-table menu item: [state, message]
resetTable(s) ==
  LET r == newTable(s.heap, [headers |-> <<ColumnLabel(1), ColumnLabel(2), ColumnLabel(3)>>,
                             rows |-> <<blankRow(3)>>,
                             alignments |-> <<"left", "left", "left">>])
      s1 == setTableData([s EXCEPT !.heap = r.heap], r.table)
      s2 == setMarkdownContent(s1, serializeOf(s1.heap, r.table))
  IN  [state |-> saveToHistory(s2), message |-> <<"success", "reset">>]

\* the table the transpose menu item builds from the table value tv, with
\* one row per header but the first
transposed_skipsFirstHeader(tv) ==
  LET R == Len(tv.rows)
      N == Len(tv.headers)
      newHeaders == <<ColumnLabel(1)>> \o [i \in 1..R |-> ColumnLabel(i + 1)]
  IN  [headers |-> newHeaders,
       rows |-> [k \in 1..(N - 1) |->
                   <<tv.headers[k + 1]>> \o [i \in 1..R |-> cellOrEmpty(tv.rows[i], k)]],
       alignments |-> [i \in 1..Len(newHeaders) |-> "left"]]

\* the table the transpose menu item builds from the table value tv
transposed(tv) ==
  LET R == Len(tv.rows)
      N == Len(tv.headers)
      newHeaders == <<ColumnLabel(1)>> \o [i \in 1..R |-> ColumnLabel(i + 1)]
  IN  [headers |-> newHeaders,
       rows |-> [k \in 1..N |->
                   <<tv.headers[k]>> \o [i \in 1..R |-> cellOrEmpty(tv.rows[i], k - 1)]],
       alignments |-> [i \in 1..Len(newHeaders) |-> "left"]]

\* the transpose menu item: [state, message]
transpose(s) ==
  LET r == newTable(s.heap, transposed(tableValue(s.heap, s.tableData)))
      s1 == setTableData([s EXCEPT !.heap = r.heap], r.table)
      s2 == setMarkdownContent(s1, serializeOf(s1.heap, r.table))
  IN  [state |-> saveToHistory(s2), message |-> <<"success", "transposed">>]

ClipboardInputs == {<<>>, <<"7">>}
AlignmentInputs == {"center"}

\* a toolbar handler that gave result
ToolbarCall(op, result) ==
  /\ Step(op)
  /\ Set(result.state)
  /\ message' = result.message
  /\ UNCHANGED <<timers, codec>>

ToolbarAddRow == ToolbarCall("Toolbar.addRow", Toolbar_addRow(state))

ToolbarAddColumn == ToolbarCall("Toolbar.addColumn", Toolbar_addColumn(state))

SetAlignment ==
  \E alignment \in AlignmentInputs :
    ToolbarCall("setAlignment", setAlignment(state, alignment))

\* pasteData, the clipboard read resolving before any other handler runs
PasteData == \E text \in ClipboardInputs : ToolbarCall("pasteData", pasteData(state, text))

ClearContent == ToolbarCall("clear-content", clearContent(state))

ResetTable == ToolbarCall("reset-table", resetTable(state))

Transpose == ToolbarCall("transpose", transpose(state))

ToolbarSelect == StoreCall("setSelectedCells", setSelectedCells(state, <<Cell(1, 1)>>))

ToolbarNext ==
  \/ ToolbarSelect
  \/ ToolbarAddRow
  \/ DeleteRow
  \/ ToolbarAddColumn
  \/ DeleteColumn
  \/ SetAlignment
  \/ SortColumn
  \/ PasteData
  \/ ClearContent
  \/ ResetTable
  \/ Transpose
  \/ Undo

ToolbarSpec == Init /\ [][ToolbarNext]_vars

(***************************************************************************)
(* The codec on text: a text is parsed, then validated, as the source      *)
(* editor and the importers do with what the user typed or pasted.         *)
(***************************************************************************)
TextAlphabet == {"|", ":", "-", " ", NL, "a"}

\* "| A | B |" / "| --- | :---: |" / "| 1 | 2 |"
ScenarioText ==
  <<"|", " ", "A", " ", "|", " ", "B", " ", "|", NL,
    "|", " ", "-", "-", "-", " ", "|", " ", ":", "-", "-", "-", ":", " ", "|", NL,
    "|", " ", "1", " ", "|", " ", "2", " ", "|">>

\* "| A | B |" / "| :--- | ---: |"
LeftColonText ==
  <<"|", " ", "A", " ", "|", " ", "B", " ", "|", NL,
    "|", " ", ":", "-", "-", "-", " ", "|", " ", "-", "-", "-", ":", " ", "|">>

TextInputs ==
  UNION {[1..n -> TextAlphabet] : n \in 0..MaxTextLen} \cup {ScenarioText, LeftColonText}

TextInit ==
  /\ StoreInit
  /\ codec \in {[pc |-> "text", text |-> t] : t \in TextInputs}

TextParse ==
  /\ codec.pc = "text"
  /\ codec' = [pc |-> "parsed", text |-> codec.text,
               parsed |-> MarkdownTableParser_parse(codec.text)]
  /\ CodecIdle

TextValidate ==
  /\ codec.pc = "parsed"
  /\ codec' = [pc |-> "validated", text |-> codec.text, parsed |-> codec.parsed,
               valid |-> MarkdownTableParser_validate(codec.text)]
  /\ CodecIdle

TextNext ==
  \/ TextParse
  \/ TextValidate

TextSpec == TextInit /\ [][TextNext]_vars

(***************************************************************************)
(* Properties.                                                             *)
(***************************************************************************)
\* the live state by content: table, styles and the three selections
liveState(s) ==
  [table |-> tableValue(s.heap, s.tableData), styles |-> s.cellStyles,
   cells |-> s.selectedCells, rows |-> s.selectedRows, columns |-> s.selectedColumns]

RECURSIVE commitAll(_, _)
commitAll(s, cs) == IF cs = <<>> THEN s ELSE commitAll(commit(s, cs[1]), Tail(cs))

RECURSIVE undoTimes(_, _)
undoTimes(s, n) == IF n = 0 THEN s ELSE undoTimes(undo(s), n - 1)

CommitOps == {"setTableData", "saveToHistory", "timer:saveToHistory"}
StyleOps == {"setCellStyle", "updateCellStyle", "clearCellStyles"}

\* C1: from any reachable store state, N commits followed by N undos leave
\* the live table, styles and selection as they were before the first commit.
C1_CommitsThenUndosRestoreLive ==
  \A n \in 1..MaxCommits :
    \A cs \in [1..n -> Commits] :
      liveState(undoTimes(commitAll(state, cs), n)) = liveState(state)

\* C2 (as claimed): commit; undo; redo leaves the live state and the
\* Markdown text as they were right after the commit, and commit A; commit B;
\* undo shows table A, a following redo table B.
C2_CommitUndoRedo ==
  /\ \A c \in Commits :
       LET s1 == commit(state, c)
           s3 == redo(undo(s1))
       IN  /\ liveState(s3) = liveState(s1)
           /\ s3.markdownContent = s1.markdownContent
  /\ \A a \in InputTables : \A b \in InputTables :
       LET sA == commit(state, [op |-> "setTableData", data |-> a])
           sB == commit(sA, [op |-> "setTableData", data |-> b])
           u == undo(sB)
           r == redo(u)
       IN  /\ tableValue(u.heap, u.tableData) = a
           /\ tableValue(r.heap, r.tableData) = b

\* C2 (amended): commit; undo; redo leaves the live table, styles and
\* selection as they were right after the commit and the Markdown text equal
\* to the serialization of that table, which is the text right after the
\* commit when the commit was setTableData; commit A; commit B; undo shows
\* table A, a following redo table B.
C2_CommitUndoRedoAmended ==
  /\ \A c \in Commits :
       LET s1 == commit(state, c)
           s3 == redo(undo(s1))
       IN  /\ liveState(s3) = liveState(s1)
           /\ s3.markdownContent = serializeOf(s3.heap, s3.tableData)
           /\ c.op = "setTableData" => s3.markdownContent = s1.markdownContent
  /\ \A a \in InputTables : \A b \in InputTables :
       LET sA == commit(state, [op |-> "setTableData", data |-> a])
           sB == commit(sA, [op |-> "setTableData", data |-> b])
           u == undo(sB)
           r == redo(u)
       IN  /\ tableValue(u.heap, u.tableData) = a
           /\ tableValue(r.heap, r.tableData) = b

\* a commit, an undo and a redo have just run in this order, and the live
\* table is the committed one again
C2_Witness ==
  /\ oplog = <<"setTableData", "undo", "redo">>
  /\ history.future = <<>>
  /\ Len(history.past) = 1
  /\ tableValue(heap, tableData) \in InputTables
  /\ markdownContent = serializeOf(heap, tableData)

\* C3: in every reachable state history.present holds the live table, the
\* live styles and the live selection.
C3_PresentReflectsLive ==
  /\ tableValue(heap, history.present.data) = tableValue(heap, tableData)
  /\ history.present.styles = cellStyles
  /\ history.present.selectedCells = selectedCells
  /\ history.present.selectedRows = selectedRows
  /\ history.present.selectedColumns = selectedColumns

\* the arrays of the tables held by the history
snapshotArrays(h, hist) ==
  LET held == {hist.present} \cup {hist.past[i] : i \in 1..Len(hist.past)}
                             \cup {hist.future[i] : i \in 1..Len(hist.future)}
  IN  UNION {{sn.data.headers, sn.data.rows}
               \cup {h[sn.data.rows][i] : i \in 1..Len(h[sn.data.rows])} : sn \in held}

\* C4: no step changes the headers or rows of a table that a snapshot of the
\* history (past, present or future) holds.
C4_SnapshotsNeverChange ==
  [][\A a \in snapshotArrays(heap, history) : heap'[a] = heap[a]]_vars

\* C5: history.past never holds more entries than settings.maxHistorySize.
C5_PastWithinMaxHistorySize == Len(history.past) <= settings.maxHistorySize

\* C6: a commit appends the previous present to the end of past, leaving the
\* other entries in place, makes the snapshot of the new live state the
\* present, and empties future.
C6_CommitAppendsPresent ==
  [][lastOp' \in CommitOps =>
       /\ history'.past = Append(history.past, history.present)
       /\ history'.present = TableState(snapshots', tableData', cellStyles',
                                        selectedCells', selectedRows', selectedColumns')
       /\ history'.present.id > history.present.id
       /\ history'.future = <<>>]_vars

\* a commit made right after an undo: past had an entry to keep in place and
\* future had one to drop
C6_Witness ==
  /\ Len(oplog) = 3
  /\ oplog[1] \in CommitOps
  /\ oplog[2] = "undo"
  /\ oplog[3] \in CommitOps
  /\ Len(history.past) = 1
  /\ history.future = <<>>

\* C7: undo with an empty past changes nothing in the store (the handler
\* reports it as information); otherwise the old present goes to the front of
\* future, the last entry of past becomes the present and leaves past, and
\* the live table, styles and selection are that snapshot's.
C7_Undo ==
  [][lastOp' \in {"undo", "handleUndo"} =>
       IF history.past = <<>>
       THEN /\ UNCHANGED storeVars
            /\ lastOp' = "handleUndo" => message'[1] = "info"
       ELSE /\ history'.future = <<history.present>> \o history.future
            /\ history'.present = history.past[Len(history.past)]
            /\ history'.past = SubSeq(history.past, 1, Len(history.past) - 1)
            /\ tableData' = history'.present.data
            /\ cellStyles' = history'.present.styles
            /\ selectedCells' = history'.present.selectedCells
            /\ selectedRows' = history'.present.selectedRows
            /\ selectedColumns' = history'.present.selectedColumns]_vars

\* an undo has just taken a committed table back
C7_Witness ==
  /\ Len(oplog) >= 2
  /\ oplog[Len(oplog) - 1] \in CommitOps
  /\ lastOp = "undo"
  /\ Len(history.future) = 1
  /\ tableData = history.present.data
  /\ tableValue(heap, tableData) # tableValue(heap, history.future[1].data)

\* C8: redo with an empty future changes nothing in the store; otherwise the
\* old present goes to the end of past, the first entry of future becomes the
\* present and leaves future, and the live table, styles and selection are
\* that snapshot's.
C8_Redo ==
  [][lastOp' \in {"redo", "handleRedo"} =>
       IF history.future = <<>>
       THEN /\ UNCHANGED storeVars
            /\ lastOp' = "handleRedo" => message'[1] = "info"
       ELSE /\ history'.past = Append(history.past, history.present)
            /\ history'.present = history.future[1]
            /\ history'.future = Tail(history.future)
            /\ tableData' = history'.present.data
            /\ cellStyles' = history'.present.styles
            /\ selectedCells' = history'.present.selectedCells
            /\ selectedRows' = history'.present.selectedRows
            /\ selectedColumns' = history'.present.selectedColumns]_vars

\* a redo has just brought back the table an undo had taken away
C8_Witness ==
  /\ Len(oplog) = 3
  /\ oplog[1] \in CommitOps
  /\ oplog[2] \in {"undo", "handleUndo"}
  /\ oplog[3] \in {"redo", "handleRedo"}
  /\ history.future = <<>>
  /\ Len(history.past) = 1
  /\ tableData = history.present.data
  /\ tableValue(heap, tableData) # tableValue(heap, history.past[1].data)

\* C9: every style edit commits: past grows by one and the new present holds
\* the new style map.
C9_StyleEditCommits ==
  [][lastOp' \in StyleOps =>
       /\ Len(history'.past) = Len(history.past) + 1
       /\ history'.present.styles = cellStyles']_vars

\* C10: parsing the serialization of a rectangular table with at least one
\* column gives back its headers, rows and alignments, each cell trimmed.
C10_ParseSerializeRoundTrip ==
  codec.pc = "parsed" =>
    LET t == codec.table
        p == codec.parsed
    IN  IF Threw(p) THEN FALSE
        ELSE /\ p.headers = [i \in 1..Len(t.headers) |-> trim(t.headers[i])]
             /\ p.rows = [r \in 1..Len(t.rows) |->
                            [i \in 1..Len(t.rows[r]) |-> trim(t.rows[r][i])]]
             /\ p.alignments = t.alignments

\* C11: for every rectangular table T, serializing the parse of serialize(T)
\* gives the text serialize(T) again.
C11_SerializeParseSerialize ==
  codec.pc = "formatted" => codec.formatted = codec.text

\* the number of lines of a text that hold a character other than whitespace
nonBlankLines(text) ==
  LET all == split(text, NL)
  IN  Cardinality({i \in 1..Len(all) : \E k \in 1..Len(all[i]) : ~IsSpace(all[i][k])})

\* C12: parse fails, with the format error, exactly on the texts with fewer
\* than two non-blank lines, and validate answers true exactly on the texts
\* parse accepts and false on the others.
C12_ParseFailsBelowTwoLines ==
  /\ codec.pc \in {"parsed", "validated"} =>
       /\ Threw(codec.parsed) <=> nonBlankLines(codec.text) < 2
       /\ Threw(codec.parsed) => codec.parsed = FormatError
  /\ codec.pc = "validated" =>
       /\ codec.valid \in BOOLEAN
       /\ codec.valid <=> nonBlankLines(codec.text) >= 2

\* a text of two non-blank lines around a blank one was accepted
C12_Witness ==
  /\ codec.pc = "validated"
  /\ codec.valid
  /\ Len(split(codec.text, NL)) = 3
  /\ nonBlankLines(codec.text) = 2

\* the alignment the delimiter cell c stands for
alignmentOf(c) ==
  LET t == trim(c)
      colonLeft == t # <<>> /\ Head(t) = ":"
      colonRight == t # <<>> /\ t[Len(t)] = ":"
  IN  IF colonLeft /\ colonRight THEN "center"
      ELSE IF colonRight THEN "right"
      ELSE "left"

\* C13: parse gives one alignment per cell of the delimiter row: center for
\* a cell with a colon at both ends, right for one with a colon at the right
\* end only, left for any other (a colon at the left end only included); the
\* text "| A | B |" / "| --- | :---: |" / "| 1 | 2 |" gives [left, center].
C13_DelimiterAlignments ==
  (codec.pc \in {"parsed", "validated"} /\ ~Threw(codec.parsed)) =>
    LET cells == parseTableRow(parseLines(codec.text)[2])
    IN  /\ Len(codec.parsed.alignments) = Len(cells)
        /\ \A i \in 1..Len(cells) : codec.parsed.alignments[i] = alignmentOf(cells[i])
        /\ codec.text = ScenarioText =>
              codec.parsed = [headers |-> << <<"A">>, <<"B">> >>,
                              rows |-> << << <<"1">>, <<"2">> >> >>,
                              alignments |-> <<"left", "center">>]
        /\ codec.text = LeftColonText =>
              codec.parsed.alignments = <<"left", "right">>

\* a delimiter row with a left-colon cell and a right-colon cell was parsed
C13_Witness ==
  /\ codec.pc = "parsed"
  /\ codec.text = LeftColonText
  /\ codec.parsed.alignments = <<"left", "right">>

\* headers, alignments and every row have the same length
Rectangular(tv) ==
  /\ Len(tv.alignments) = Len(tv.headers)
  /\ \A r \in 1..Len(tv.rows) : Len(tv.rows[r]) = Len(tv.headers)

\* C14: from the default table, after any sequence of addColumn and
\* removeColumn with any index argument, headers, alignments and every row
\* have the same length, and one more addColumn or removeColumn keeps it so.
C14_ColumnOpsKeepShape ==
  /\ Rectangular(tableValue(heap, tableData))
  /\ \A i \in AddColumnInputs :
       LET r == MarkdownTableParser_addColumn(heap, tableData, i)
       IN  /\ Rectangular(tableValue(r.heap, r.table))
           /\ Len(r.heap[r.table.headers]) = Len(heap[tableData.headers]) + 1
  /\ \A i \in ColumnIndexInputs :
       LET r == MarkdownTableParser_removeColumn(heap, tableData, i)
       IN  Rectangular(tableValue(r.heap, r.table))

\* a column was added in front of the default ones, a second one added and
\* a column removed
C14_Witness ==
  /\ oplog = <<"addColumn", "addColumn", "removeColumn">>
  /\ Len(heap[tableData.headers]) = 4
  /\ Len(heap[tableData.rows]) = 3
  /\ heap[tableData.headers][1] = HeaderName(4)

\* C15: the table always has at least one column; removeColumn on a table of
\* one column, or with an index outside the columns, returns its input, and
\* with an index inside a wider table it removes one column.
C15_RemoveColumnFloor ==
  /\ Len(heap[tableData.headers]) >= 1
  /\ \A i \in ColumnIndexInputs :
       LET n == Len(heap[tableData.headers])
           r == MarkdownTableParser_removeColumn(heap, tableData, i)
       IN  /\ Len(r.heap[r.table.headers]) >= 1
           /\ IF n = 1 \/ i < 0 \/ i >= n
              THEN /\ r.table = tableData
                   /\ r.heap = heap
                   /\ removeColumn(state, i).tableData = tableData
              ELSE Len(r.heap[r.table.headers]) = n - 1

\* two columns of the default table were removed and the third removal refused
C15_Witness ==
  /\ oplog = <<"removeColumn", "removeColumn", "removeColumn">>
  /\ Len(heap[tableData.headers]) = 1
  /\ heap[tableData.headers][1] = defaultTableValue.headers[3]

\* the column index addColumn inserts at
insertIndexOf(n, index) ==
  IF index # Undefined /\ index[1] >= 0 /\ index[1] <= n THEN index[1] ELSE n

\* C16: on a table with columnWidths, the store's addColumn inserts 150 at
\* the new column's index and leaves the other widths as they were, and the
\* store's removeColumn of a column takes out that column's width and leaves
\* the others as they were.
C16_WidthsFollowColumns ==
  HasWidths(tableData) =>
    LET n == Len(heap[tableData.headers])
        w == tableData.columnWidths
    IN  /\ \A i \in AddColumnInputs :
             LET t2 == addColumn(state, i).tableData
             IN  /\ HasWidths(t2)
                 /\ t2.columnWidths = insertAt(w, insertIndexOf(n, i), 150)
        /\ \A i \in ColumnIndexInputs :
             (i >= 0 /\ i < n /\ n > 1) =>
               LET t2 == removeColumn(state, i).tableData
               IN  /\ HasWidths(t2)
                   /\ t2.columnWidths = filterIdx(w, (1..Len(w)) \ {i + 1}, 1)

\* C17: after updateColumnWidth(index, width), for any index and width,
\* columnWidths exists with one entry per header, holds max(50, width) at
\* index and at every other position the width it had (150 when the call
\* created the array).
C17_UpdateColumnWidth ==
  \A a \in ColumnWidthInputs :
    LET n == Len(heap[tableData.headers])
        before == IF HasWidths(tableData) THEN tableData.columnWidths
                  ELSE [k \in 1..n |-> 150]
        t2 == updateColumnWidth(state, a[1], a[2]).tableData
    IN  /\ HasWidths(t2)
        /\ Len(t2.columnWidths) = n
        /\ \A k \in 1..n :
             t2.columnWidths[k] = IF k = a[1] + 1
                                  THEN (IF a[2] > 50 THEN a[2] ELSE 50)
                                  ELSE before[k]

\* C18: deleteRow (deleteColumn) changes neither the table nor the history
\* when no cell is selected or when the selected cells touch every row
\* (every column), and never leaves a table without rows (without columns).
C18_BulkDeleteRefused ==
  [][/\ lastOp' = "deleteRow" =>
          LET rows == 0..(Len(heap[tableData.rows]) - 1)
          IN  /\ (selectedCells = <<>> \/ rows \subseteq selectedIndices(selectedCells, "row"))
                   => UNCHANGED <<heap, tableData, history>>
              /\ rows # {} => Len(heap'[tableData'.rows]) > 0
     /\ lastOp' = "deleteColumn" =>
          LET cols == 0..(Len(heap[tableData.headers]) - 1)
          IN  /\ (selectedCells = <<>> \/ cols \subseteq selectedIndices(selectedCells, "col"))
                   => UNCHANGED <<heap, tableData, history>>
              /\ cols # {} => Len(heap'[tableData'.headers]) > 0]_vars

\* row and column arguments below, inside and beyond the table
RowArguments == -2..4
ColumnArguments == -1..3

\* C19: updateCell(table, row, col, value) with row = -1 and col inside the
\* headers gives a table whose headers[col] is value; with row and col
\* inside the rows one whose rows[row][col] is value; every other header,
\* cell and alignment is the input's, and the input table itself is as it
\* was; with an index outside the table the input is returned.
C19_UpdateCellFrame ==
  \A row \in RowArguments : \A col \in ColumnArguments :
    LET before == tableValue(heap, tableData)
        r == MarkdownTableParser_updateCell(heap, tableData, row, col, CellX)
        after == tableValue(r.heap, r.table)
    IN  /\ after.alignments = before.alignments
        /\ tableValue(r.heap, tableData) = before
        /\ updateCell(state, row, col, CellX).tableData = r.table
        /\ IF row = -1 /\ col >= 0 /\ col < Len(before.headers)
           THEN /\ after.headers = [before.headers EXCEPT ![col + 1] = CellX]
                /\ after.rows = before.rows
           ELSE IF /\ row >= 0 /\ row < Len(before.rows)
                   /\ col >= 0 /\ col < Len(before.rows[row + 1])
           THEN /\ after.headers = before.headers
                /\ after.rows = [before.rows EXCEPT ![row + 1][col + 1] = CellX]
           ELSE /\ r.table = tableData
                /\ r.heap = heap

\* the first header and the first data cell were both rewritten, the second
\* header is still the default one
C19_Witness ==
  /\ Len(oplog) >= 2
  /\ oplog[Len(oplog) - 1] = "updateCell"
  /\ lastOp = "updateCell"
  /\ heap[tableData.headers][1] = CellX
  /\ heap[tableData.headers][2] = defaultTableValue.headers[2]
  /\ Len(heap[tableData.rows]) = 3
  /\ heap[heap[tableData.rows][1]] = <<CellX>> \o Tail(defaultTableValue.rows[1])

\* the index arguments of addRow: absent, below, inside and beyond the rows
AddRowArguments == {Undefined} \cup {Some(i) : i \in {-1, 0, 1, 9}}

\* C20: addRow(table, index) gives the input rows with one row of blank
\* cells, one per header, inserted at index when 0 <= index <= row count and
\* appended otherwise; headers, alignments and, when the input has them,
\* columnWidths are the input's.
C20_AddRowFrame ==
  \A index \in AddRowArguments :
    LET before == tableValue(heap, tableData)
        r == MarkdownTableParser_addRow(heap, tableData, index)
        after == tableValue(r.heap, r.table)
        blank == [c \in 1..Len(before.headers) |-> <<>>]
    IN  /\ after.rows = IF index # Undefined /\ index[1] >= 0 /\ index[1] <= Len(before.rows)
                        THEN insertAt(before.rows, index[1], blank)
                        ELSE Append(before.rows, blank)
        /\ after.headers = before.headers
        /\ after.alignments = before.alignments
        /\ addRow(state, index).tableData = r.table
        /\ HasWidths(tableData) =>
             /\ HasWidths(r.table)
             /\ r.table.columnWidths = tableData.columnWidths

\* the pending timers armed with callback
pending(callback) == {i \in 1..Len(timers) : timers[i].callback = callback}

\* C21: at most one live-parse timer is pending at any time.
C21_OneLiveParseTimer == Cardinality(pending("liveParse")) <= 1

\* what the user issues between the arming of a timer and its run
InterveningOps == {"handleCellChange", "undo", "redo"}

\* C22: a timer callback that runs after an edit, undo or redo issued later
\* than the handler that armed it leaves the live table and the redo list as
\* that later operation left them.
C22_LateCompletionKeepsLaterEdits ==
  [][lastOp' \in {"timer:saveToHistory", "timer:liveParse"} =>
       \A i \in 1..Len(timers) :
         (timers' = withoutTimer(i) /\ timers[i].at < steps /\ lastOp \in InterveningOps) =>
           /\ tableValue(heap', tableData') = tableValue(heap, tableData)
           /\ history'.future = history.future]_vars

\* C23: when the text does not parse, syncFromMarkdown, the apply action and
\* the live parse leave the table and the history as they were;
\* syncFromMarkdown records the error and the apply action shows a warning.
C23_FailedParseKeepsTable ==
  [][/\ (lastOp' = "syncFromMarkdown" /\ Threw(MarkdownTableParser_parse(markdownContent))) =>
          /\ UNCHANGED <<heap, tableData, history>>
          /\ error' = FormatError.message
     /\ (lastOp' = "applyChanges" /\ Threw(MarkdownTableParser_parse(markdownContent))) =>
          /\ UNCHANGED <<heap, tableData, history>>
          /\ message'[1] = "warning"
     /\ lastOp' = "timer:liveParse" =>
          \A i \in 1..Len(timers) :
            (timers' = withoutTimer(i) /\ Threw(MarkdownTableParser_parse(timers[i].value))) =>
              UNCHANGED <<heap, tableData, history>>]_vars

\* a draft that is no table was refused after a cell edit had been committed
C23_Witness ==
  /\ oplog = <<"handleCellChange", "setMarkdownContent", "syncFromMarkdown">>
  /\ markdownContent = DraftText
  /\ error = FormatError.message
  /\ Len(history.past) = 1
  /\ tableData = history.present.data

\* the order the sort is to produce on two cell texts: numeric when both
\* parse as numbers, string comparison otherwise
columnOrder(x, y) ==
  IF parseFloat(x) # <<>> /\ parseFloat(y) # <<>>
  THEN parseFloat(x)[1] - parseFloat(y)[1]
  ELSE localeCompare(x, y)

\* position of the row reference ref in refs
positionOf(refs, ref) == CHOOSE i \in 1..Len(refs) : refs[i] = ref

\* after is a permutation of before, ordered by column columnIndex, ties in
\* their order in before
SortedPermutation(h, before, after, columnIndex, ascending) ==
  LET key(i) == cellOrEmpty(h[after[i]], columnIndex)
      n == 1..Len(after)
  IN  /\ Len(after) = Len(before)
      /\ \A i \in n : Cardinality({j \in n : after[j] = before[i]}) = 1
      /\ \A i, j \in n : i < j =>
            /\ IF ascending THEN columnOrder(key(i), key(j)) <= 0
               ELSE columnOrder(key(i), key(j)) >= 0
            /\ columnOrder(key(i), key(j)) = 0 =>
                 positionOf(before, after[i]) < positionOf(before, after[j])

\* C24: sorting by the column of the first selected cell gives a
\* permutation of the rows, in ascending or descending order of that column
\* (numeric when both cells parse as numbers, string comparison otherwise),
\* ties in their former order, headers and alignments unchanged; the rows
\* 3, 1, 2 sorted ascending become 1, 2, 3.
C24_SortOrdersRows ==
  [][(lastOp' \in {"sortColumn:ascending", "sortColumn:descending"}
        /\ Len(selectedCells) > 0) =>
       LET before == heap[tableData.rows]
           after == heap'[tableData'.rows]
           ascending == lastOp' = "sortColumn:ascending"
       IN  /\ tableValue(heap', tableData').headers = tableValue(heap, tableData).headers
           /\ tableData'.alignments = tableData.alignments
           /\ \A i \in 1..Len(before) : heap'[before[i]] = heap[before[i]]
           /\ SortedPermutation(heap', before, after, selectedCells[1].col, ascending)
           /\ (ascending /\ tableValue(heap, tableData).rows
                               = << << <<"3">> >>, << <<"1">> >>, << <<"2">> >> >>)
                 => tableValue(heap', tableData').rows
                      = << << <<"1">> >>, << <<"2">> >>, << <<"3">> >> >>]_vars

\* the values of column k of the table value tv, one per data row
columnValues(tv, k) == [i \in 1..Len(tv.rows) |-> tv.rows[i][k]]

AllLeft(tv) ==
  /\ Len(tv.alignments) = Len(tv.headers)
  /\ \A i \in 1..Len(tv.alignments) : tv.alignments[i] = "left"

\* C25 as stated: transposing a rectangular table of N columns and R rows
\* gives headers made of the first header's label and one label per data
\* row, one row per header but the first holding that header's column
\* values, and alignments all left, as many as the new headers.
C25_TransposeDropsFirstHeader ==
  [][(lastOp' = "transpose" /\ Rectangular(tableValue(heap, tableData))) =>
       LET before == tableValue(heap, tableData)
           after == tableValue(heap', tableData')
           N == Len(before.headers)
           R == Len(before.rows)
       IN  /\ Len(after.headers) = R + 1
           /\ after.headers[1] = before.headers[1]
           /\ Len(after.rows) = N - 1
           /\ \A k \in 1..(N - 1) : after.rows[k] = columnValues(before, k + 1)
           /\ AllLeft(after)]_vars

\* C25: transposing a rectangular table of N columns and R rows gives R + 1
\* generated header labels, one row per header, the first included, holding
\* the header's text and then its column values, and alignments all left, as
\* many as the new headers.
C25_TransposeHeadersBecomeColumn ==
  [][(lastOp' = "transpose" /\ Rectangular(tableValue(heap, tableData))) =>
       LET before == tableValue(heap, tableData)
           after == tableValue(heap', tableData')
           N == Len(before.headers)
           R == Len(before.rows)
       IN  /\ after.headers = [i \in 1..(R + 1) |-> ColumnLabel(i)]
           /\ Len(after.rows) = N
           /\ \A k \in 1..N :
                 after.rows[k] = <<before.headers[k]>> \o columnValues(before, k)
           /\ AllLeft(after)]_vars

\* C25: the default table of three columns and three rows has been
\* transposed
C25_Witness ==
  /\ lastOp = "transpose"
  /\ Len(oplog) = 1
  /\ Len(tableValue(heap, tableData).headers) = 4
  /\ Len(tableValue(heap, tableData).rows) = 3
  /\ tableValue(heap, tableData).rows[2][1] = defaultTableValue.headers[2]
  /\ tableValue(heap, tableData).rows[2][4] = defaultTableValue.rows[3][2]

\* the record kept for cellId, the default record when there is none
recordOf(s, cellId) ==
  IF cellId \in DOMAIN s.cellStyles THEN s.cellStyles[cellId] ELSE defaultCellStyle

\* record is previous overridden field by field with style
Overridden(record, previous, style) ==
  /\ DOMAIN record = DOMAIN previous \cup DOMAIN style
  /\ \A f \in DOMAIN record :
       record[f] = IF f \in DOMAIN style THEN style[f] ELSE previous[f]

\* C26: setCellStyle(cellId, style) stores for cellId the previous record
\* (the default record when there was none) overridden field by field with
\* style; of two successive calls on one key the later wins per field and
\* the fields it does not name keep their value; the records of the other
\* keys are unchanged.
C26_SetStyleMerges ==
  \A cellId \in StyleKeys, style \in StyleArguments :
    LET t == setCellStyle(state, cellId, style)
    IN  /\ DOMAIN t.cellStyles = DOMAIN cellStyles \cup {cellId}
        /\ Overridden(t.cellStyles[cellId], recordOf(state, cellId), style)
        /\ \A other \in DOMAIN cellStyles \ {cellId} :
             t.cellStyles[other] = cellStyles[other]
        /\ \A later \in StyleArguments :
             LET u == setCellStyle(t, cellId, later)
             IN  \A f \in DOMAIN defaultCellStyle :
                   u.cellStyles[cellId][f] =
                     IF f \in DOMAIN later THEN later[f]
                     ELSE IF f \in DOMAIN style THEN style[f]
                     ELSE recordOf(state, cellId)[f]

\* C26: a cell was made bold, then red: it is both, and the other cell's
\* record is there
C26_Witness ==
  /\ Len(oplog) >= 2
  /\ lastOp = "setCellStyle"
  /\ getCellId(0, 0) \in DOMAIN cellStyles
  /\ getCellId(-1, 0) \in DOMAIN cellStyles
  /\ cellStyles[getCellId(0, 0)].fontWeight = "bold"
  /\ cellStyles[getCellId(0, 0)].color = "red"
  /\ cellStyles[getCellId(0, 0)].fontSize = 14

\* the snapshot objects held by a stack of the history
objectsOf(stack) == {stack[i].id : i \in 1..Len(stack)}

\* C27: no snapshot object is held by history.past and by history.future at
\* once.
C27_PastFutureDisjoint ==
  objectsOf(history.past) \cap objectsOf(history.future) = {}

\* C27: after two commits and an undo both stacks hold snapshots
C27_Witness ==
  /\ lastOp = "undo"
  /\ Len(history.past) >= 1
  /\ Len(history.future) >= 1
  /\ objectsOf(history.past) \cap objectsOf(history.future) = {}

ToolbarActions ==
  {"Toolbar.addRow", "deleteRow", "Toolbar.addColumn", "deleteColumn", "setAlignment",
   "sortColumn:ascending", "sortColumn:descending", "pasteData", "clear-content",
   "reset-table", "transpose"}

\* C28: a toolbar action that changes the table appends exactly one
\* snapshot to history.past, and one undo restores the table that was live
\* before the action.
C28_ToolbarActionIsOneUndoStep ==
  [][(lastOp' \in ToolbarActions /\ message'[1] = "success") =>
       /\ Len(history'.past) = Len(history.past) + 1
       /\ tableValue(undo(state').heap, undo(state').tableData)
            = tableValue(heap, tableData)]_vars

\* C29: after any sequence of store operations without setMarkdownContent,
\* markdownContent is the serialization of tableData.
C29_MarkdownFollowsTable ==
  markdownContent = serializeOf(heap, tableData)

\* C30: with a non-empty past, undo() and then redo() give back the live
\* table, cell styles and selection there were before the undo, changes
\* made after the last commit included.
C30_UndoRedoRestoresLiveState ==
  Len(history.past) > 0 =>
    LET u == redo(undo(state))
    IN  /\ tableValue(u.heap, u.tableData) = tableValue(heap, tableData)
        /\ u.cellStyles = cellStyles
        /\ u.selectedCells = selectedCells
        /\ u.selectedRows = selectedRows
        /\ u.selectedColumns = selectedColumns

====
